---- MODULE Spec2Model ----
(***************************************************************************)
(* Model of the agent orchestration core of codebetter:                    *)
(*   - McpRegistry and ExternalMcpProvider (src/src/core/mcp/McpRegistry.ts)*)
(*   - PhaseRunner, the tool-calling loop (src/src/core/phases/PhaseRunner.ts)*)
(*   - LLMClient.chat / chatStream (src/src/core/llm/LLMClient.ts)          *)
(* Asynchronous methods are split at their await points: one action per    *)
(* synchronous stretch of code.                                            *)
(***************************************************************************)
EXTENDS Integers, Sequences, FiniteSets, TLC

VARIABLES
    builtInProviders,   \* McpRegistry.builtInProviders: sequence of built-in providers
    objs,               \* every ExternalMcpProvider ever constructed (index = reference)
    userProviders,      \* McpRegistry.userProviders: Map in insertion order, <<[name, ref]>>
    tasks,              \* registry calls in flight, each suspended at an await
    lastReturn,         \* the registry call that returned last, with its result
    llmConfig,          \* LLMClient.config
    history,            \* PhaseRunner.history
    run,                \* the executePhase / executePhaseStream call and its locals
    gen,                \* the chatStream generator being read: chunks to come, its Map
    view,               \* TraycerViewProvider: _isProcessing, and what it posted to the webview
    twin,               \* the executePhase call that returned, kept to compare executePhaseStream with
    pure                \* a call of a function without side effects: its argument and its result

regVars == <<builtInProviders, objs, userProviders, tasks, lastReturn>>

\* The variables the registry's actions leave alone.
nonRegVars == <<llmConfig, history, run, gen, view, twin, pure>>

vars == <<regVars, nonRegVars>>

-----------------------------------------------------------------------------
(* Bounds of the model *)

MaxRegs == 2        \* registerUserMcpServer calls explored (= providers constructed)
MaxExtra == 1       \* registerProvider calls explored

-----------------------------------------------------------------------------
(* Small helpers *)

RECURSIVE Flatten(_)
Flatten(ss) == IF ss = <<>> THEN <<>> ELSE Head(ss) \o Flatten(Tail(ss))

NoDuplicates(s) == \A i, j \in 1..Len(s) : i # j => s[i] # s[j]

MinFree(used) == CHOOSE i \in 1..(Cardinality(used) + 1) :
                    i \notin used /\ \A j \in 1..(i - 1) : j \in used

\* The n smallest task ids not in `used`, in ascending order.
RECURSIVE FreeIds(_, _)
FreeIds(used, n) ==
    IF n = 0 THEN <<>>
    ELSE LET i == MinFree(used) IN <<i>> \o FreeIds(used \cup {i}, n - 1)

-----------------------------------------------------------------------------
(* Built-in providers *)

\* GitMcpProvider: provideContext catches its own failures, getTools lists four tools.
GitMcpProvider ==
    [name |-> "git", mayThrow |-> FALSE,
     tools |-> <<"git_status", "git_branch", "git_diff", "git_log">>]

\* FileSystemMcpProvider: provideContext awaits findFiles outside any try block.
FileSystemMcpProvider ==
    [name |-> "filesystem", mayThrow |-> TRUE,
     tools |-> <<"list_dir", "read_file", "search_files">>]

\* Providers a caller may hand to registerProvider (any McpProvider implementation).
ExtraProviders ==
    { [name |-> "notes", mayThrow |-> TRUE, tools |-> <<"read_file", "add_note">>] }

-----------------------------------------------------------------------------
(* External providers *)

UserNames == {"srv", "db"}

\* McpServerConfig values: a server that works, a command that cannot be
\* spawned, a server whose listTools request fails, no command at all, and a
\* working server marked disabled.
GoodCmd == "node srv.js"
BadCmd == "no-such-binary"
NoListCmd == "node nolist.js"

Configs ==
    { [command |-> GoodCmd, disabled |-> FALSE],
      [command |-> BadCmd, disabled |-> FALSE],
      [command |-> NoListCmd, disabled |-> FALSE],
      [command |-> "", disabled |-> FALSE],
      [command |-> GoodCmd, disabled |-> TRUE] }

\* Outcome of client.connect(transport) for a command: TRUE = resolves.
ConnectOutcomes(command) == IF command = BadCmd THEN {FALSE} ELSE {TRUE}

\* Outcome of client.listTools(): TRUE = resolves.
ListOutcomes(command) == IF command = NoListCmd THEN {FALSE} ELSE {TRUE}

\* The tools the server behind a command reports (result.tools).
ServerTools(command) == IF command = GoodCmd THEN <<"run", "read_file">> ELSE <<>>

\* new ExternalMcpProvider(name, config)
NewExternalMcpProvider(name, config) ==
    [name |-> name, config |-> config, client |-> "null", transport |-> "null",
     connected |-> FALSE, tools |-> <<>>]

\* The name refreshTools gives a server tool: `${this.name}__${tool.name}`.
NamespacedName(name, tool) == name \o "__" \o tool

\* refreshTools, after listTools resolved: the mapped tool list.
MappedTools(name, listed) ==
    [i \in 1..Len(listed) |-> [name |-> NamespacedName(name, listed[i]), local |-> listed[i]]]

\* ExternalMcpProvider.provideContext
ExternalContext(o) ==
    [serverName |-> o.name, connected |-> o.connected,
     command |-> o.config.command, toolCount |-> Len(o.tools)]

\* A built-in provider's context (its content does not matter, its origin does).
BuiltInContext(p) == [provider |-> p.name, builtIn |-> TRUE]

-----------------------------------------------------------------------------
(* userProviders as an insertion-ordered Map *)

MapHas(m, name) == \E i \in 1..Len(m) : m[i].name = name

MapGet(m, name) == IF MapHas(m, name)
                   THEN m[CHOOSE i \in 1..Len(m) : m[i].name = name].ref
                   ELSE 0

\* Mutant of MapSet: the set call is missing.
MapSetMissing(m, name, ref) == m

\* Map.set: an existing key keeps its position, a new key goes last.
MapSet(m, name, ref) ==
    IF MapHas(m, name)
    THEN [i \in 1..Len(m) |-> IF m[i].name = name THEN [name |-> name, ref |-> ref] ELSE m[i]]
    ELSE Append(m, [name |-> name, ref |-> ref])

MapValues(m) == [i \in 1..Len(m) |-> m[i].ref]

-----------------------------------------------------------------------------
(* McpRegistry: synchronous queries *)

\* A provider handle: a built-in (index into builtInProviders) or an external (reference).
BuiltInHandle(i) == [builtIn |-> TRUE, ref |-> i]
ExternalHandle(r) == [builtIn |-> FALSE, ref |-> r]

\* getAllProviders(): built-ins first, then the user providers in Map order.
GetAllProviders(bs, ups) ==
    [i \in 1..Len(bs) |-> BuiltInHandle(i)]
        \o [i \in 1..Len(ups) |-> ExternalHandle(ups[i].ref)]

HandleName(h, bs, os) == IF h.builtIn THEN bs[h.ref].name ELSE os[h.ref].name

\* provider.getTools() as catalog entries: a built-in tool carries its own name.
ProviderTools(h, bs, os) ==
    IF h.builtIn
    THEN [i \in 1..Len(bs[h.ref].tools) |->
            [name |-> bs[h.ref].tools[i], local |-> bs[h.ref].tools[i], owner |-> h]]
    ELSE [i \in 1..Len(os[h.ref].tools) |->
            [name |-> os[h.ref].tools[i].name, local |-> os[h.ref].tools[i].local, owner |-> h]]

\* getAllTools(): the providers' tool lists, concatenated in provider order.
GetAllToolsOf(bs, os, ups) ==
    LET ps == GetAllProviders(bs, ups)
    IN  Flatten([i \in 1..Len(ps) |-> ProviderTools(ps[i], bs, os)])

GetAllTools == GetAllToolsOf(builtInProviders, objs, userProviders)

ToolNames(catalog) == [i \in 1..Len(catalog) |-> catalog[i].name]

-----------------------------------------------------------------------------
(* ExternalMcpProvider.stop, split at its awaits *)

\* Mutant of StopFirstPc: stop() closes the client whether it has one or not.
StopFirstPcAlwaysCloses(o) == "closeClient"

\* stop() up to its first await: the flags are reset, then the first close is requested.
StopFirstPc(o) == IF o.client # "null" THEN "closeClient"
                  ELSE IF o.transport # "null" THEN "closeTransport"
                  ELSE "done"

StopPrefix(os, r) == [os EXCEPT ![r].connected = FALSE, ![r].tools = <<>>]

StopTask(id, r, parent, os) ==
    [id |-> id, op |-> "stop", pc |-> StopFirstPc(os[r]), obj |-> r, parent |-> parent]

\* stop() resumes after `await this.client.close()` or `await this.transport.close()`.
StopResume(t) ==
    /\ t \in tasks /\ t.op = "stop"
    /\ \/ /\ t.pc = "closeClient"
          /\ objs' = [objs EXCEPT ![t.obj].client = "null"]
          /\ tasks' = (tasks \ {t}) \cup
                {[t EXCEPT !.pc = IF objs[t.obj].transport # "null"
                                  THEN "closeTransport" ELSE "done"]}
       \/ /\ t.pc = "closeTransport"
          /\ objs' = [objs EXCEPT ![t.obj].transport = "null"]
          /\ tasks' = (tasks \ {t}) \cup {[t EXCEPT !.pc = "done"]}
    /\ UNCHANGED <<builtInProviders, userProviders, lastReturn>>
    /\ UNCHANGED nonRegVars

Children(id) == {t \in tasks : t.op = "stop" /\ t.parent = id}
ChildrenDone(id) == \A t \in Children(id) : t.pc = "done"

TaskIds == {t.id : t \in tasks}

\* lastReturn while a call is in flight or before any call.
NoReturn == [op |-> "none", threw |-> FALSE]

-----------------------------------------------------------------------------
(* McpRegistry.registerProvider *)

RegisterProvider(p) ==
    /\ Len(builtInProviders) < 2 + MaxExtra
    /\ builtInProviders' = Append(builtInProviders, p)
    /\ UNCHANGED <<objs, userProviders, tasks, lastReturn>>
    /\ UNCHANGED nonRegVars

-----------------------------------------------------------------------------
(* McpRegistry.registerUserMcpServer and ExternalMcpProvider.start *)

\* start() up to its first await. With a client already set or no command it
\* returns at once; otherwise the transport and the client are created and
\* client.connect is awaited.
StartReturnsAtOnce(o) == o.client # "null" \/ o.config.command = ""

StartPrefix(o) ==
    IF StartReturnsAtOnce(o) THEN o
    ELSE [o EXCEPT !.transport = "set", !.client = "set"]

\* registerUserMcpServer from `new ExternalMcpProvider` to the await of start().
CreateAndStart(id, name, config) ==
    LET r == Len(objs) + 1
        o == NewExternalMcpProvider(name, config)
    IN  /\ objs' = Append(objs, StartPrefix(o))
        /\ userProviders' = MapSet(userProviders, name, r)
        /\ tasks' = {t \in tasks : t.id # id /\ ~(t.op = "stop" /\ t.parent = id)} \cup
              {[id |-> id, op |-> "register", name |-> name, config |-> config, obj |-> r,
                pc |-> IF StartReturnsAtOnce(o) THEN "startReturned" ELSE "connecting"]}

\* Mutant of RegisterUserMcpServer: the existing provider is not stopped.
RegisterWithoutStop(name, config) ==
    /\ Len(objs) < MaxRegs
    /\ CreateAndStart(MinFree(TaskIds), name, config)
    /\ lastReturn' = NoReturn
    /\ UNCHANGED builtInProviders
    /\ UNCHANGED nonRegVars

\* The call is made: an existing provider of that name is stopped first (awaited).
RegisterUserMcpServer(name, config) ==
    /\ Len(objs) < MaxRegs
    /\ LET id == MinFree(TaskIds)
           existing == MapGet(userProviders, name)
       IN  IF existing # 0
           THEN /\ objs' = StopPrefix(objs, existing)
                /\ tasks' = tasks \cup
                     {[id |-> id, op |-> "register", name |-> name, config |-> config,
                       obj |-> 0, pc |-> "awaitStop"],
                      StopTask(MinFree(TaskIds \cup {id}), existing, id, objs)}
                /\ UNCHANGED userProviders
           ELSE CreateAndStart(id, name, config)
    /\ lastReturn' = NoReturn
    /\ UNCHANGED builtInProviders
    /\ UNCHANGED nonRegVars

\* `await existing.stop()` resumes.
RegisterAfterStop(t) ==
    /\ t \in tasks /\ t.op = "register" /\ t.pc = "awaitStop"
    /\ ChildrenDone(t.id)
    /\ CreateAndStart(t.id, t.name, t.config)
    /\ UNCHANGED <<builtInProviders, lastReturn>>
    /\ UNCHANGED nonRegVars

\* refreshTools() up to its await: without a client or a connection the tool
\* list is emptied and it returns.
RefreshReturnsAtOnce(o) == o.client = "null" \/ ~o.connected

\* A stop() of the provider has run since its start() created the client: the
\* client is closing or closed, and a request pending on it may still be
\* answered or may be rejected.
Closing(r) == objs[r].client = "null" \/ \E s \in tasks : s.op = "stop" /\ s.obj = r

ConnectResults(t) ==
    ConnectOutcomes(t.config.command) \cup (IF Closing(t.obj) THEN {FALSE} ELSE {})

ListResults(t) ==
    ListOutcomes(t.config.command) \cup (IF Closing(t.obj) THEN {FALSE} ELSE {})

\* start() resumes after `await this.client.connect(this.transport)`.
ConnectResume(t) ==
    /\ t \in tasks /\ t.op = "register" /\ t.pc = "connecting"
    /\ \E ok \in ConnectResults(t) :
         IF ok
         THEN LET o == [objs[t.obj] EXCEPT !.connected = TRUE]
              IN  /\ objs' = [objs EXCEPT ![t.obj] =
                                IF RefreshReturnsAtOnce(o) THEN [o EXCEPT !.tools = <<>>] ELSE o]
                  /\ tasks' = (tasks \ {t}) \cup
                        {[t EXCEPT !.pc = IF RefreshReturnsAtOnce(o)
                                          THEN "startReturned" ELSE "listing"]}
         ELSE \* catch: connected = false; await this.stop()
              LET os == [objs EXCEPT ![t.obj].connected = FALSE]
              IN  /\ objs' = StopPrefix(os, t.obj)
                  /\ tasks' = (tasks \ {t}) \cup
                        {[t EXCEPT !.pc = "failStop"],
                         StopTask(MinFree(TaskIds), t.obj, t.id, os)}
    /\ UNCHANGED <<builtInProviders, userProviders, lastReturn>>
    /\ UNCHANGED nonRegVars

\* refreshTools() resumes after `await this.client.listTools()`.
ListResume(t) ==
    /\ t \in tasks /\ t.op = "register" /\ t.pc = "listing"
    /\ \E ok \in ListResults(t) :
         objs' = [objs EXCEPT ![t.obj].tools =
                    IF ok THEN MappedTools(objs[t.obj].name, ServerTools(t.config.command))
                    ELSE <<>>]
    /\ tasks' = (tasks \ {t}) \cup {[t EXCEPT !.pc = "startReturned"]}
    /\ UNCHANGED <<builtInProviders, userProviders, lastReturn>>
    /\ UNCHANGED nonRegVars

\* `await provider.start()` resumes and registerUserMcpServer returns.
RegisterReturn(t) ==
    /\ t \in tasks /\ t.op = "register"
    /\ \/ t.pc = "startReturned"
       \/ t.pc = "failStop" /\ ChildrenDone(t.id)
    /\ tasks' = {u \in tasks : u.id # t.id /\ ~(u.op = "stop" /\ u.parent = t.id)}
    /\ lastReturn' = [op |-> "register", name |-> t.name, config |-> t.config,
                      obj |-> t.obj, threw |-> FALSE]
    /\ UNCHANGED <<builtInProviders, objs, userProviders>>
    /\ UNCHANGED nonRegVars

-----------------------------------------------------------------------------
(* McpRegistry.clearUserProviders *)

RECURSIVE StopAll(_, _)
StopAll(os, refs) == IF refs = <<>> THEN os ELSE StopAll(StopPrefix(os, Head(refs)), Tail(refs))

\* Every provider's stop() is called (each runs to its first await), then
\* Promise.all is awaited.
ClearUserProviders ==
    /\ LET id == MinFree(TaskIds)
           refs == MapValues(userProviders)
           ids == FreeIds(TaskIds \cup {id}, Len(refs))
       IN  /\ objs' = StopAll(objs, refs)
           /\ tasks' = tasks \cup {[id |-> id, op |-> "clear", pc |-> "awaitAll"]}
                 \cup {StopTask(ids[i], refs[i], id, objs) : i \in 1..Len(refs)}
    /\ lastReturn' = NoReturn
    /\ UNCHANGED <<builtInProviders, userProviders>>
    /\ UNCHANGED nonRegVars

\* Mutant of ClearResume: the Map is not cleared.
ClearResumeKeepsMap(t) ==
    /\ t \in tasks /\ t.op = "clear" /\ t.pc = "awaitAll"
    /\ ChildrenDone(t.id)
    /\ tasks' = {u \in tasks : u.id # t.id /\ ~(u.op = "stop" /\ u.parent = t.id)}
    /\ lastReturn' = [op |-> "clear", threw |-> FALSE]
    /\ UNCHANGED <<builtInProviders, objs, userProviders>>
    /\ UNCHANGED nonRegVars

\* `await Promise.all(stopPromises)` resumes: the Map is cleared.
ClearResume(t) ==
    /\ t \in tasks /\ t.op = "clear" /\ t.pc = "awaitAll"
    /\ ChildrenDone(t.id)
    /\ userProviders' = <<>>
    /\ tasks' = {u \in tasks : u.id # t.id /\ ~(u.op = "stop" /\ u.parent = t.id)}
    /\ lastReturn' = [op |-> "clear", threw |-> FALSE]
    /\ UNCHANGED <<builtInProviders, objs>>
    /\ UNCHANGED nonRegVars

-----------------------------------------------------------------------------
(* McpRegistry.aggregateContext *)

\* Whether a provider's provideContext can reject: an external provider only
\* reads its own fields; a built-in one says so itself.
MayThrow(h, bs) == h.builtIn /\ bs[h.ref].mayThrow

\* provider.provideContext(ctx), called now: what the awaited promise will give.
ProvideContext(h, bs, os, fails) ==
    [name |-> HandleName(h, bs, os), ok |-> ~fails,
     value |-> IF h.builtIn THEN BuiltInContext(bs[h.ref]) ELSE ExternalContext(os[h.ref])]

\* fullContext = { ...fullContext, [provider.name]: pCtx }
Spread(ctx, name, value) ==
    [k \in (DOMAIN ctx) \cup {name} |-> IF k = name THEN value ELSE ctx[k]]

\* Mutant of AggregateStore: a failure discards what was aggregated so far.
AggregateStoreDropsAll(ctx, got) == IF got.ok THEN Spread(ctx, got.name, got.value) ELSE <<>>

\* One turn of the loop body after the await: the try stores the context, the
\* catch only logs.
AggregateStore(ctx, got) == IF got.ok THEN Spread(ctx, got.name, got.value) ELSE ctx

\* The call is made: getAllProviders() is evaluated once, the first provider is asked.
AggregateContext ==
    /\ LET id == MinFree(TaskIds)
           snap == GetAllProviders(builtInProviders, userProviders)
       IN  \E fails \in (IF MayThrow(snap[1], builtInProviders) THEN BOOLEAN ELSE {FALSE}) :
             tasks' = tasks \cup
                {[id |-> id, op |-> "aggregate", pc |-> "awaitContext", snap |-> snap,
                  fullContext |-> <<>>,
                  got |-> <<ProvideContext(snap[1], builtInProviders, objs, fails)>>]}
    /\ lastReturn' = NoReturn
    /\ UNCHANGED <<builtInProviders, objs, userProviders>>
    /\ UNCHANGED nonRegVars

\* `await provider.provideContext(ctx)` resumes: the result is stored (or the
\* failure logged), then the next provider is asked or the mapping is returned.
AggregateResume(t) ==
    /\ t \in tasks /\ t.op = "aggregate" /\ t.pc = "awaitContext"
    /\ LET k == Len(t.got)
           ctx == AggregateStore(t.fullContext, t.got[k])
       IN  IF k < Len(t.snap)
           THEN /\ \E fails \in (IF MayThrow(t.snap[k + 1], builtInProviders)
                                 THEN BOOLEAN ELSE {FALSE}) :
                     tasks' = (tasks \ {t}) \cup
                        {[t EXCEPT !.fullContext = ctx,
                                   !.got = Append(@, ProvideContext(t.snap[k + 1],
                                                builtInProviders, objs, fails))]}
                /\ UNCHANGED lastReturn
           ELSE /\ tasks' = tasks \ {t}
                /\ lastReturn' = [op |-> "aggregate", threw |-> FALSE, result |-> ctx,
                                  snap |-> t.snap, got |-> t.got]
    /\ UNCHANGED <<builtInProviders, objs, userProviders>>
    /\ UNCHANGED nonRegVars

\* aggregateContext run from start to end with nothing else in between: the
\* providers at the positions in `failing` reject.
RECURSIVE AggregateFrom(_, _, _, _, _, _)
AggregateFrom(k, ctx, snap, bs, os, failing) ==
    IF k > Len(snap) THEN ctx
    ELSE AggregateFrom(k + 1,
                       AggregateStore(ctx, ProvideContext(snap[k], bs, os, k \in failing)),
                       snap, bs, os, failing)

AggregateAll(bs, os, ups, failing) ==
    AggregateFrom(1, <<>>, GetAllProviders(bs, ups), bs, os, failing)

\* The positions of the providers whose provideContext can reject.
CanFail(bs, ups) ==
    LET snap == GetAllProviders(bs, ups) IN {k \in 1..Len(snap) : MayThrow(snap[k], bs)}

-----------------------------------------------------------------------------
(* Strings and JavaScript truthiness *)

\* null / undefined where the code has `string | null`.
Null == "<null>"

Falsy(x) == x = Null \/ x = ""

\* x || d
OrElse(x, d) == IF Falsy(x) THEN d ELSE x

\* s.trim() === ''
Blank(s) == \A i \in 1..Len(s) : SubSeq(s, i, i) = " "

\* s.includes(sub)
Includes(s, sub) ==
    \E i \in 1..(Len(s) - Len(sub) + 1) : SubSeq(s, i, i + Len(sub) - 1) = sub

\* parts.join(sep)
RECURSIVE Join(_, _)
Join(parts, sep) ==
    IF parts = <<>> THEN ""
    ELSE IF Len(parts) = 1 THEN parts[1]
    ELSE parts[1] \o sep \o Join(Tail(parts), sep)

\* JSON.stringify(value): an injective encoding of the value.
JsonStringify(value) == [json |-> value]

-----------------------------------------------------------------------------
(* LLMClient: configuration and errors *)

\* PROVIDER_DEFAULTS[provider].requiresApiKey (an unknown provider gets openai's).
RequiresApiKey(provider) == provider # "ollama"

\* The settings explored: complete, API key missing, ollama without a key.
LLMConfigs ==
    { [provider |-> "openai", apiKey |-> "sk-1", baseUrl |-> "https://api.openai.com/v1", model |-> "gpt-4o"],
      [provider |-> "openai", apiKey |-> "", baseUrl |-> "https://api.openai.com/v1", model |-> "gpt-4o"],
      [provider |-> "ollama", apiKey |-> "", baseUrl |-> "http://localhost:11434/v1", model |-> "llama3.2"] }

\* configure(): whether this.client is created.
ClientOf(config) ==
    LET needsApiKey == RequiresApiKey(config.provider)
        apiKey == IF needsApiKey THEN config.apiKey ELSE OrElse(config.apiKey, "ollama")
    IN  IF ~Falsy(apiKey) \/ ~needsApiKey THEN "set" ELSE "null"

\* Mutant of ValidateConfig: the API key is required of every backend.
ValidateConfigKeyAlways(config) ==
    (IF Falsy(config.apiKey) \/ Blank(config.apiKey)
     THEN <<"API Key is required. Please configure it in Traycer Settings.">> ELSE <<>>)
    \o (IF Falsy(config.baseUrl) \/ Blank(config.baseUrl)
        THEN <<"API Base URL is required.">> ELSE <<>>)
    \o (IF Falsy(config.model) \/ Blank(config.model)
        THEN <<"Model name is required.">> ELSE <<>>)

\* validateConfig().errors
ValidateConfig(config) ==
    (IF RequiresApiKey(config.provider) /\ (Falsy(config.apiKey) \/ Blank(config.apiKey))
     THEN <<"API Key is required. Please configure it in Traycer Settings.">> ELSE <<>>)
    \o (IF Falsy(config.baseUrl) \/ Blank(config.baseUrl)
        THEN <<"API Base URL is required.">> ELSE <<>>)
    \o (IF Falsy(config.model) \/ Blank(config.model)
        THEN <<"Model name is required.">> ELSE <<>>)

\* new Error(message): no status, no code, no response.
Error(message) == [status |-> 0, code |-> "", message |-> message, response |-> FALSE]

\* What chat and chatStream throw before any request: <<the error>>, or <<>>
\* when they go on to the request.
PreflightError(config) ==
    IF ValidateConfig(config) # <<>> THEN <<Error(Join(ValidateConfig(config), "\n"))>>
    ELSE IF ClientOf(config) = "null"
         THEN <<Error("LLM client not initialized. Please configure API key.")>>
         ELSE <<>>

\* The failures of the backend request explored (what the openai client throws).
TransportErrors ==
    { [status |-> 401, code |-> "", message |-> "Unauthorized", response |-> FALSE],
      [status |-> 0, code |-> "ETIMEDOUT", message |-> "connect ETIMEDOUT", response |-> FALSE] }

\* handleApiError(error)
HandleApiError(error) ==
    IF error.status = 401
    THEN Error("Authentication failed. Please check your API key.")
    ELSE IF error.status = 429
    THEN Error("Rate limit exceeded. Please wait a moment and try again.")
    ELSE IF error.status \in {500, 502, 503}
    THEN Error("API service is temporarily unavailable. Please try again later.")
    ELSE IF error.code \in {"ECONNREFUSED", "ENOTFOUND"}
    THEN Error("Network error. Please check your internet connection and API base URL.")
    ELSE IF error.code = "ETIMEDOUT"
    THEN Error("Request timed out. Please try again.")
    ELSE Error("API Error: " \o OrElse(error.message, "Unknown error occurred"))

\* ErrorLogger.classifyError(error)
ClassifyError(error) ==
    IF error.status \in {401, 403} THEN "AUTH_ERROR"
    ELSE IF error.status = 429 THEN "RATE_LIMIT"
    ELSE IF error.status >= 500 THEN "API_ERROR"
    ELSE IF error.code \in {"ECONNREFUSED", "ENOTFOUND", "ENETUNREACH"} THEN "NETWORK_ERROR"
    ELSE IF error.code = "ETIMEDOUT" \/ Includes(error.message, "timeout") THEN "TIMEOUT"
    ELSE IF error.status # 0 \/ error.response THEN "API_ERROR"
    ELSE "UNKNOWN"

\* ErrorLogger.getUserFriendlyMessage(type, originalMessage)
GetUserFriendlyMessage(type, originalMessage) ==
    CASE type = "API_ERROR" ->
            "An error occurred while communicating with the AI service. Please try again."
      [] type = "NETWORK_ERROR" ->
            "Network connection failed. Please check your internet connection and try again."
      [] type = "AUTH_ERROR" -> "Authentication failed. Please check your API key in settings."
      [] type = "RATE_LIMIT" -> "Rate limit exceeded. Please wait a moment before trying again."
      [] type = "TIMEOUT" -> "Request timed out. Please try again with a simpler request."
      [] type = "TOOL_ERROR" ->
            "Tool execution failed: " \o OrElse(originalMessage, "Unknown error")
      [] type = "CONFIG_ERROR" -> "Configuration error. Please check your settings."
      [] OTHER -> OrElse(originalMessage, "An unexpected error occurred. Please try again.")

-----------------------------------------------------------------------------
(* LLMClient.chat and LLMClient.chatStream *)

\* A backend message is [content, tool_calls], a tool call [id, name, arguments]
\* (type is always 'function').

\* chat(): the ChatResponse built from choices[0].message.
ChatResponse(message) ==
    [content |-> message.content,
     toolCalls |-> [i \in 1..Len(message.tool_calls) |->
                      [id |-> message.tool_calls[i].id,
                       name |-> message.tool_calls[i].name,
                       arguments |-> message.tool_calls[i].arguments]]]

\* A streamed chunk is [content, tool_calls, finish_reason]; a tool-call delta
\* is [index, id, name, arguments], with Null for a field it does not carry.
\* accumulatedToolCalls is a Map<number, ToolCall> in insertion order: <<[index, call]>>.

AccHas(acc, index) == \E i \in 1..Len(acc) : acc[i].index = index

AccGet(acc, index) ==
    IF AccHas(acc, index)
    THEN acc[CHOOSE i \in 1..Len(acc) : acc[i].index = index].call
    ELSE [id |-> "", name |-> "", arguments |-> ""]

AccSet(acc, index, call) ==
    IF AccHas(acc, index)
    THEN [i \in 1..Len(acc) |->
            IF acc[i].index = index THEN [index |-> index, call |-> call] ELSE acc[i]]
    ELSE Append(acc, [index |-> index, call |-> call])

\* Mutant of AccumulateDelta: an argument fragment replaces what was accumulated.
AccumulateDeltaOverwrites(acc, tc) ==
    LET existing == AccGet(acc, tc.index)
    IN  AccSet(acc, tc.index,
               [id |-> IF ~Falsy(tc.id) THEN tc.id ELSE existing.id,
                name |-> IF ~Falsy(tc.name) THEN tc.name ELSE existing.name,
                arguments |-> IF ~Falsy(tc.arguments) THEN tc.arguments
                              ELSE existing.arguments])

\* The body of `for (const tc of delta.tool_calls)`: an id or a name is
\* adopted, an argument fragment is appended.
AccumulateDelta(acc, tc) ==
    LET existing == AccGet(acc, tc.index)
    IN  AccSet(acc, tc.index,
               [id |-> IF ~Falsy(tc.id) THEN tc.id ELSE existing.id,
                name |-> IF ~Falsy(tc.name) THEN tc.name ELSE existing.name,
                arguments |-> IF ~Falsy(tc.arguments)
                              THEN existing.arguments \o tc.arguments
                              ELSE existing.arguments])

RECURSIVE AccumulateAll(_, _)
AccumulateAll(acc, deltas) ==
    IF deltas = <<>> THEN acc
    ELSE AccumulateAll(AccumulateDelta(acc, Head(deltas)), Tail(deltas))

\* Array.from(accumulatedToolCalls.values()), or undefined (here <<>>) for an empty Map.
AccValues(acc) == [i \in 1..Len(acc) |-> acc[i].call]

\* One turn of `for await (const chunk of stream)` in chatStream: the Map
\* after the chunk and the events yielded for it, in order.
StreamStep(acc, chunk) ==
    LET acc2 == AccumulateAll(acc, chunk.tool_calls)
    IN  [acc |-> acc2,
         events |->
            (IF ~Falsy(chunk.content)
             THEN <<[content |-> chunk.content, toolCalls |-> <<>>, done |-> FALSE]>>
             ELSE <<>>)
            \o (IF ~Falsy(chunk.finish_reason)
                THEN <<[content |-> Null, toolCalls |-> AccValues(acc2), done |-> TRUE]>>
                ELSE <<>>)]

-----------------------------------------------------------------------------
(* The backend and the tools: what the loop's collaborators answer *)

ArgsRead == "{\"path\":\"a.ts\"}"
ArgsEmpty == "{}"
ArgsBroken == "{\"path\":"

\* JSON.parse(text) succeeds
JsonValid(text) == text \in {ArgsRead, ArgsEmpty}

\* JSON.parse(text), for a text it accepts: the structured value.
JsonParse(text) == [parsed |-> text]

\* The message of the SyntaxError JSON.parse throws.
JsonParseError == "Unexpected end of JSON input"

\* The tool calls a reply may request: a built-in tool, the same tool under the
\* namespaced name (no such tool), an external tool whose server rejects the
\* call, and arguments that are not JSON.
CallRead == [name |-> "read_file", arguments |-> ArgsRead]
CallNamespaced == [name |-> "filesystem__read_file", arguments |-> ArgsRead]
CallRun == [name |-> "srv__run", arguments |-> ArgsEmpty]
CallBroken == [name |-> "list_dir", arguments |-> ArgsBroken]

\* Replies that request tools, and replies that do not.
ToolReplies ==
    { [content |-> "ab", calls |-> <<CallRead>>],
      [content |-> "ab", calls |-> <<CallRun, CallRead>>],
      [content |-> Null, calls |-> <<CallNamespaced, CallBroken>>] }
FinalReplies == [content : {Null, "done"}, calls : {<<>>}]

\* The id the backend gives the j-th tool call of its n-th reply.
CallId(n, j) == "call_" \o ToString(n) \o "_" \o ToString(j)

\* choices[0].message of the backend's n-th reply.
BackendMessage(reply, n) ==
    [content |-> reply.content,
     tool_calls |-> [j \in 1..Len(reply.calls) |->
                       [id |-> CallId(n, j), name |-> reply.calls[j].name,
                        arguments |-> reply.calls[j].arguments]]]

\* A text cut in two (the second half may be empty).
FirstHalf(text) == SubSeq(text, 1, (Len(text) + 1) \div 2)
SecondHalf(text) == SubSeq(text, (Len(text) + 1) \div 2 + 1, Len(text))

Chunk(content, deltas, finish) ==
    [content |-> content, tool_calls |-> deltas, finish_reason |-> finish]

\* The same message as the backend streams it: the content in two deltas, each
\* tool call as a delta with id, name and the first half of the arguments and
\* a delta with the rest, then the chunk with the finish_reason.
EncodeStream(message) ==
    (IF Falsy(message.content) THEN <<>>
     ELSE <<Chunk(FirstHalf(message.content), <<>>, Null),
            Chunk(SecondHalf(message.content), <<>>, Null)>>)
    \o Flatten([j \in 1..Len(message.tool_calls) |->
          <<Chunk(Null, <<[index |-> j - 1, id |-> message.tool_calls[j].id,
                           name |-> message.tool_calls[j].name,
                           arguments |-> FirstHalf(message.tool_calls[j].arguments)]>>, Null),
            Chunk(Null, <<[index |-> j - 1, id |-> Null, name |-> Null,
                           arguments |-> SecondHalf(message.tool_calls[j].arguments)]>>, Null)>>])
    \o <<Chunk(Null, <<>>, IF message.tool_calls = <<>> THEN "stop" ELSE "tool_calls")>>

\* What the server behind a command answers to callTool: it rejects "run".
CallTool(command, local, args) ==
    IF local = "run" THEN [rejects |-> TRUE, message |-> "boom"]
    ELSE [rejects |-> FALSE, value |-> [text |-> local, arguments |-> args]]

\* What a built-in tool's execute returns (it catches its own failures).
BuiltInResult(local, args) == [success |-> TRUE, tool |-> local, arguments |-> args]

-----------------------------------------------------------------------------
(* Tool dispatch: PhaseRunner.executeToolCall -> McpRegistry.executeTool ->   *)
(* tool.execute                                                               *)

Threw(message) == [threw |-> TRUE, message |-> message]
Returned(value) == [threw |-> FALSE, value |-> value]

\* ExternalMcpProvider.executeTool
ExternalExecuteTool(o, local, args) ==
    IF o.client = "null" \/ ~o.connected
    THEN Threw("MCP server " \o o.name \o " is not connected")
    ELSE LET out == CallTool(o.config.command, local, args)
         IN  IF out.rejects THEN Threw("Tool execution failed: " \o out.message)
             ELSE Returned(out.value)

\* tool.execute(args) of a catalog entry.
Execute(tool, args, os) ==
    IF tool.owner.builtIn THEN Returned(BuiltInResult(tool.local, args))
    ELSE ExternalExecuteTool(os[tool.owner.ref], tool.local, args)

\* Mutant of Find: an entry also matches by the name its provider knows it by.
FindByLocalName(tools, toolName) ==
    LET matching == SelectSeq(tools, LAMBDA t : t.name = toolName \/ t.local = toolName)
    IN  IF matching = <<>> THEN <<>> ELSE <<Head(matching)>>

\* tools.find(t => t.name === toolName): <<the first entry of that name>>, or <<>>.
Find(tools, toolName) ==
    LET matching == SelectSeq(tools, LAMBDA t : t.name = toolName)
    IN  IF matching = <<>> THEN <<>> ELSE <<Head(matching)>>

\* McpRegistry.executeTool
RegistryExecuteTool(toolName, args, bs, os, ups) ==
    LET tool == Find(GetAllToolsOf(bs, os, ups), toolName)
    IN  IF tool = <<>> THEN Threw("Tool " \o toolName \o " not found")
        ELSE Execute(tool[1], args, os)

\* The tool names and arguments a caller passes to McpRegistry.executeTool.
ToolNameInputs == {"read_file", "run", "srv__run", "srv__read_file"}
ArgInputs == {JsonParse(ArgsRead)}

\* A call of McpRegistry.executeTool, with the catalog entries whose execute
\* it called (`invoked`) and what it threw or returned (`result`).
ExecuteTool(toolName, args) ==
    LET tool == Find(GetAllTools, toolName)
    IN  /\ lastReturn' =
              IF tool = <<>>
              THEN [op |-> "executeTool", threw |-> TRUE, toolName |-> toolName,
                    args |-> args, invoked |-> <<>>,
                    result |-> Threw("Tool " \o toolName \o " not found")]
              ELSE LET result == Execute(tool[1], args, objs)
                   IN  [op |-> "executeTool", threw |-> result.threw, toolName |-> toolName,
                        args |-> args, invoked |-> <<tool[1]>>, result |-> result]
        /\ UNCHANGED <<builtInProviders, objs, userProviders, tasks>>
        /\ UNCHANGED nonRegVars

\* The second try/catch of executeToolCall: a failure becomes an {error} result.
CatchToolError(r) == IF r.threw THEN Returned([error |-> r.message]) ELSE r

\* Mutant of ExecuteToolCall: a failure of the registry call is not caught.
ExecuteToolCallRethrows(toolCall, bs, os, ups) ==
    IF ~JsonValid(toolCall.arguments)
    THEN Returned([error |-> "Failed to parse tool arguments: " \o JsonParseError])
    ELSE RegistryExecuteTool(toolCall.name, JsonParse(toolCall.arguments), bs, os, ups)

\* Mutant of ExecuteToolCall: the arguments go to the registry as they came.
ExecuteToolCallUnparsed(toolCall, bs, os, ups) ==
    CatchToolError(RegistryExecuteTool(toolCall.name, JsonParse(toolCall.arguments),
                                       bs, os, ups))

\* PhaseRunner.executeToolCall: both failures become an {error} result.
ExecuteToolCall(toolCall, bs, os, ups) ==
    IF ~JsonValid(toolCall.arguments)
    THEN Returned([error |-> "Failed to parse tool arguments: " \o JsonParseError])
    ELSE CatchToolError(RegistryExecuteTool(toolCall.name, JsonParse(toolCall.arguments),
                                            bs, os, ups))

-----------------------------------------------------------------------------
(* PhaseRunner: the tool-calling loop *)

maxIterations == 10

ScriptLen == 2      \* the backend repeats a script of at most this many tool-requesting replies

\* The scripts: the tool-requesting replies the backend gives, in a cycle, for
\* as long as it does not give a final reply or fail.
RECURSIVE SeqsUpTo(_, _)
SeqsUpTo(S, n) ==
    IF n = 0 THEN {<<>>}
    ELSE LET shorter == SeqsUpTo(S, n - 1)
         IN  shorter \cup {Append(q, x) : q \in {p \in shorter : Len(p) = n - 1}, x \in S}

Scripts == SeqsUpTo(ToolReplies, ScriptLen)

ScriptedReplies(script, n) ==
    IF script = <<>> THEN {} ELSE {script[((n - 1) % Len(script)) + 1]}

\* What the n-th call of chat / chatStream leads to: an error thrown, or the
\* backend's message.
GatewayOutcomes(config, script, n) ==
    IF PreflightError(config) # <<>>
    THEN {[threw |-> TRUE, error |-> PreflightError(config)[1]]}
    ELSE {[threw |-> TRUE, error |-> HandleApiError(e)] : e \in TransportErrors}
         \cup {[threw |-> FALSE, message |-> BackendMessage(reply, n)] :
                  reply \in ScriptedReplies(script, n) \cup FinalReplies}

\* getSystemPrompt(type)
GetSystemPrompt(type) ==
    CASE type = "plan" -> "PLAN_SYSTEM_PROMPT"
      [] type = "review" -> "REVIEW_SYSTEM_PROMPT"
      [] type = "phases" -> "PHASES_SYSTEM_PROMPT"
      [] OTHER -> "PLAN_SYSTEM_PROMPT"

PhaseTypes == {"plan", "review", "phases"}

SystemMessage(type) == [role |-> "system", content |-> GetSystemPrompt(type)]

UserMessage(mcpContext) ==
    [role |-> "user", content |-> [workspaceContext |-> JsonStringify(mcpContext)]]

AssistantMessage(content, toolCalls) ==
    [role |-> "assistant", content |-> content, tool_calls |-> toolCalls]

\* Mutant of ToolMessage: the result is filed under the tool's name.
ToolMessageByName(toolCall, toolResult) ==
    [role |-> "tool", tool_call_id |-> toolCall.name, content |-> JsonStringify(toolResult)]

ToolMessage(toolCall, toolResult) ==
    [role |-> "tool", tool_call_id |-> toolCall.id, content |-> JsonStringify(toolResult)]

BufferedCapNotice == "Maximum tool iterations reached. Please try a simpler request."
StreamCapNotice == "\n\nMaximum tool iterations reached."

\* No function call under examination.
NoCall == [fn |-> "none"]

\* The caller's view of an invocation that is not running.
IdleRun ==
    [pc |-> "idle", mode |-> "none", phase |-> "none", script |-> <<>>,
     toolDefinitions |-> <<>>, messages |-> <<>>, iterations |-> 0, gatewayCalls |-> 0,
     response |-> [content |-> Null, toolCalls |-> <<>>],
     toolCalls |-> <<>>, callIdx |-> 0, toolResult |-> Returned(Null),
     currentContent |-> "", fullContent |-> "", emitted |-> <<>>,
     output |-> "", outcome |-> "none"]

\* No chatStream generator: `raw` is the stream the backend sends, `stream` what
\* is left of it, `acc` accumulatedToolCalls, `events` what a caller that
\* collects the yielded events holds.
IdleGen == [raw |-> <<>>, stream |-> <<>>, acc |-> <<>>, events |-> <<>>]

\* The webview side of TraycerViewProvider with no request: `received` counts
\* the sendMessage requests so far, `inFlight` the calls of _handleSendMessage
\* between the guard and the finally block, `posted` the messages posted to
\* the webview for the last accepted request (the streamChunk messages are
\* the chunks of run.emitted, posted by the callback as they come).
IdleView == [isProcessing |-> FALSE, received |-> 0, inFlight |-> 0, posted |-> <<>>]

\* The locals of executePhase / executePhaseStream when it is called.
StartPhase(mode, type, script) ==
    [IdleRun EXCEPT !.pc = "aggregate", !.mode = mode, !.phase = type, !.script = script]

\* executePhase(type, context) or executePhaseStream(type, context, onChunk) is
\* called: aggregateContext is awaited.
ExecutePhase(mode, type, script) ==
    /\ run.pc = "idle"
    /\ run' = StartPhase(mode, type, script)
    /\ UNCHANGED <<regVars, view, twin, pure, llmConfig, history, gen>>

\* `iterations++` and the call of chat / chatStream.
NextIteration(r) ==
    [r EXCEPT !.iterations = @ + 1, !.gatewayCalls = @ + 1, !.pc = "chat",
              !.currentContent = "", !.toolCalls = <<>>]

\* aggregateContext resolved: the tool definitions are taken, the conversation
\* is seeded and the first iteration calls the gateway.
AggregateDone(failing) ==
    /\ run.pc = "aggregate"
    /\ LET mcpContext == AggregateAll(builtInProviders, objs, userProviders, failing)
       IN  run' = NextIteration(
                    [run EXCEPT !.toolDefinitions = ToolNames(GetAllTools),
                                !.messages = <<SystemMessage(run.phase), UserMessage(mcpContext)>>])
    /\ UNCHANGED <<regVars, view, twin, pure, llmConfig, history, gen>>

\* Mutant of Finish: the PhaseResult is returned without being pushed.
FinishUnrecorded(r, output, outcome) ==
    /\ run' = [r EXCEPT !.pc = "returned", !.output = output, !.outcome = outcome]
    /\ UNCHANGED history

\* The invocation ends: the PhaseResult is pushed and returned.
Finish(r, output, outcome) ==
    /\ run' = [r EXCEPT !.pc = "returned", !.output = output, !.outcome = outcome]
    /\ history' = Append(history, [phase |-> r.phase, output |-> output])

\* The catch of executePhase / executePhaseStream.
CatchOutput(mode, err) ==
    IF mode = "buffered"
    THEN GetUserFriendlyMessage(ClassifyError(err), err.message)
    ELSE "Error: " \o err.message

\* Mutant of Catch: the gateway is called again in the same iteration.
CatchAndRetry(r, err) ==
    /\ run' = [r EXCEPT !.gatewayCalls = @ + 1]
    /\ UNCHANGED history

\* The catch block runs and the invocation ends with its output.
Catch(r, err) ==
    LET output == CatchOutput(r.mode, err)
    IN  Finish(IF r.mode = "buffered" THEN r ELSE [r EXCEPT !.emitted = Append(@, output)],
               output, "Fatal")

ExecutingNotice(toolCall) == "\n[Executing tool: " \o toolCall.name \o "...]\n"

\* Mutant of CallTool_j: the calls are executed from the last to the first.
CallTool_jReversed(r, j) ==
    [r EXCEPT !.pc = "tool", !.callIdx = j,
              !.emitted = IF r.mode = "stream"
                          THEN Append(@, ExecutingNotice(r.toolCalls[j])) ELSE @,
              !.toolResult = ExecuteToolCall(r.toolCalls[Len(r.toolCalls) - j + 1],
                                             builtInProviders, objs, userProviders)]

\* The body of `for (const toolCall of toolCalls)` up to its await: the j-th
\* call is announced (streaming) and executeToolCall is called.
CallTool_j(r, j) ==
    [r EXCEPT !.pc = "tool", !.callIdx = j,
              !.emitted = IF r.mode = "stream"
                          THEN Append(@, ExecutingNotice(r.toolCalls[j])) ELSE @,
              !.toolResult = ExecuteToolCall(r.toolCalls[j], builtInProviders, objs,
                                             userProviders)]

\* Mutant of RequestTools: the assistant message is not pushed.
RequestToolsUnrecorded(r, content, toolCalls) ==
    CallTool_j([r EXCEPT !.toolCalls = toolCalls], 1)

\* The assistant message is pushed and the first tool call is made.
RequestTools(r, content, toolCalls) ==
    CallTool_j([r EXCEPT !.messages = Append(@, AssistantMessage(content, toolCalls)),
                         !.toolCalls = toolCalls], 1)

\* Mutant of LoopContinues: the bound is tested one iteration late.
LoopContinuesOneMore(iterations) == iterations <= maxIterations

\* `while (iterations < maxIterations)`
LoopContinues(iterations) == iterations < maxIterations

\* What chatWithToolLoop / chatWithToolLoopStream return after the while loop.
CapOutput(r) ==
    IF r.mode = "buffered" THEN BufferedCapNotice ELSE r.fullContent \o StreamCapNotice

\* `await this.llmClient.chat(...)` settles (buffered loop).
ChatReturns ==
    /\ run.pc = "chat" /\ run.mode = "buffered"
    /\ \E out \in GatewayOutcomes(llmConfig, run.script, run.gatewayCalls) :
         IF out.threw
         THEN Catch(run, out.error)
         ELSE LET response == ChatResponse(out.message)
                  r == [run EXCEPT !.response = response]
              IN  IF response.toolCalls = <<>>
                  THEN Finish(r, OrElse(response.content, ""), "Done")
                  ELSE /\ run' = RequestTools(r, response.content, response.toolCalls)
                       /\ UNCHANGED history
    /\ UNCHANGED <<regVars, view, twin, pure, llmConfig, gen>>

\* Mutant of ToolReturns: at the cap the loop reports the limit without
\* appending the result of the last call.
ToolReturnsCapBeforeResult ==
    /\ run.pc = "tool"
    /\ IF run.toolResult.threw
       THEN Catch(run, Error(run.toolResult.message))
       ELSE LET r == [run EXCEPT !.messages =
                        Append(@, ToolMessage(run.toolCalls[run.callIdx], run.toolResult.value))]
            IN  IF run.callIdx < Len(run.toolCalls)
                THEN /\ run' = CallTool_j(r, run.callIdx + 1)
                     /\ UNCHANGED history
                ELSE IF LoopContinues(run.iterations)
                THEN /\ run' = NextIteration(r)
                     /\ UNCHANGED history
                ELSE Finish(run, CapOutput(run), "MaxIterations")
    /\ UNCHANGED <<regVars, view, twin, pure, llmConfig, gen>>

\* `await this.executeToolCall(toolCall)` settles: the tool message is pushed,
\* then the next call is made, or the next iteration starts, or the cap ends
\* the loop.
ToolReturns ==
    /\ run.pc = "tool"
    /\ IF run.toolResult.threw
       THEN Catch(run, Error(run.toolResult.message))
       ELSE LET r == [run EXCEPT !.messages =
                        Append(@, ToolMessage(run.toolCalls[run.callIdx], run.toolResult.value))]
            IN  IF run.callIdx < Len(run.toolCalls)
                THEN /\ run' = CallTool_j(r, run.callIdx + 1)
                     /\ UNCHANGED history
                ELSE IF LoopContinues(run.iterations)
                THEN /\ run' = NextIteration(r)
                     /\ UNCHANGED history
                ELSE Finish(r, CapOutput(r), "MaxIterations")
    /\ UNCHANGED <<regVars, view, twin, pure, llmConfig, gen>>

\* The first read of the chatStream generator: it throws, or the request is
\* made and the backend starts to stream its message.
StreamOpens ==
    /\ run.pc = "chat" /\ run.mode = "stream"
    /\ \E out \in GatewayOutcomes(llmConfig, run.script, run.gatewayCalls) :
         IF out.threw
         THEN /\ Catch(run, out.error)
              /\ UNCHANGED gen
         ELSE /\ run' = [run EXCEPT !.pc = "stream"]
              /\ gen' = [IdleGen EXCEPT !.raw = EncodeStream(out.message),
                                        !.stream = EncodeStream(out.message)]
              /\ UNCHANGED history
    /\ UNCHANGED <<regVars, view, twin, pure, llmConfig>>

\* Mutant of ConsumeEvent: the content is accumulated but not handed to onChunk.
ConsumeEventSilent(r, event) ==
    LET r1 == IF ~Falsy(event.content)
              THEN [r EXCEPT !.currentContent = @ \o event.content,
                             !.fullContent = @ \o event.content]
              ELSE r
    IN  IF event.done /\ event.toolCalls # <<>>
        THEN [r1 EXCEPT !.toolCalls = event.toolCalls] ELSE r1

\* The body of `for await (const chunk of this.llmClient.chatStream(...))`.
ConsumeEvent(r, event) ==
    LET r1 == IF ~Falsy(event.content)
              THEN [r EXCEPT !.currentContent = @ \o event.content,
                             !.fullContent = @ \o event.content,
                             !.emitted = Append(@, event.content)]
              ELSE r
    IN  IF event.done /\ event.toolCalls # <<>>
        THEN [r1 EXCEPT !.toolCalls = event.toolCalls] ELSE r1

RECURSIVE ConsumeEvents(_, _)
ConsumeEvents(r, events) ==
    IF events = <<>> THEN r ELSE ConsumeEvents(ConsumeEvent(r, Head(events)), Tail(events))

\* The generator takes the next chunk of the backend's stream and the loop
\* body runs for each event it yields.
StreamRead ==
    /\ run.pc = "stream" /\ gen.stream # <<>>
    /\ LET step == StreamStep(gen.acc, Head(gen.stream))
       IN  /\ gen' = [gen EXCEPT !.stream = Tail(gen.stream), !.acc = step.acc]
           /\ run' = ConsumeEvents(run, step.events)
    /\ UNCHANGED <<regVars, view, twin, pure, llmConfig, history>>

\* The backend's stream breaks: chatStream throws handleApiError(error).
StreamFails ==
    /\ run.pc = "stream" /\ gen.stream # <<>>
    /\ \E e \in TransportErrors : Catch(run, HandleApiError(e))
    /\ gen' = IdleGen
    /\ UNCHANGED <<regVars, view, twin, pure, llmConfig>>

\* The stream is exhausted: the loop goes on after the `for await`.
StreamEnds ==
    /\ run.pc = "stream" /\ gen.stream = <<>>
    /\ IF run.toolCalls = <<>>
       THEN Finish(run, run.fullContent, "Done")
       ELSE /\ run' = RequestTools(run, OrElse(run.currentContent, Null), run.toolCalls)
            /\ UNCHANGED history
    /\ gen' = IdleGen
    /\ UNCHANGED <<regVars, view, twin, pure, llmConfig>>

-----------------------------------------------------------------------------
(* One invocation of a new PhaseRunner, with a user server "srv" connected *)

\* ExternalMcpProvider "srv" after its start() succeeded.
ConnectedSrv ==
    [NewExternalMcpProvider("srv", [command |-> GoodCmd, disabled |-> FALSE])
        EXCEPT !.client = "set", !.transport = "set", !.connected = TRUE,
               !.tools = MappedTools("srv", ServerTools(GoodCmd))]

Init ==
    /\ builtInProviders = <<GitMcpProvider, FileSystemMcpProvider>>
    /\ objs = <<ConnectedSrv>>
    /\ userProviders = <<[name |-> "srv", ref |-> 1]>>
    /\ tasks = {}
    /\ lastReturn = NoReturn
    /\ llmConfig \in {c \in LLMConfigs : c.provider = "openai"}
    /\ history = <<>>
    /\ run = IdleRun
    /\ gen = IdleGen
    /\ view = IdleView
    /\ twin = IdleRun
    /\ pure = NoCall

Next ==
    \/ \E mode \in {"buffered", "stream"}, type \in PhaseTypes, script \in Scripts :
          ExecutePhase(mode, type, script)
    \/ \E failing \in SUBSET CanFail(builtInProviders, userProviders) : AggregateDone(failing)
    \/ ChatReturns
    \/ ToolReturns
    \/ StreamOpens
    \/ StreamRead
    \/ StreamFails
    \/ StreamEnds

Spec == Init /\ [][Next]_vars

\* Every await of the invocation settles: the gateway answers or fails, a tool
\* returns or throws, a stream ends or breaks.
SpecFair == Spec /\ WF_vars(Next)

-----------------------------------------------------------------------------
(* chatStream read by a caller that collects its events, and chat on the     *)
(* same response                                                             *)

MaxFrags == 3       \* a tool call's arguments arrive in at most this many fragments

\* The argument fragments a delta may carry (the empty one included).
Fragments == {"{\"a\"", ":1}", ""}

FragmentLists == SeqsUpTo(Fragments, MaxFrags) \ {<<>>}

\* The stream of one tool call whose arguments arrive as the given fragments:
\* the first delta carries the id and the name; with `gaps`, a content delta
\* comes before each later fragment; the last chunk carries the finish_reason.
FragmentStream(frags, gaps) ==
    <<Chunk(Null, <<[index |-> 0, id |-> CallId(1, 1), name |-> "read_file",
                     arguments |-> frags[1]]>>, Null)>>
    \o Flatten([i \in 1..(Len(frags) - 1) |->
          (IF gaps THEN <<Chunk("t", <<>>, Null)>> ELSE <<>>)
          \o <<Chunk(Null, <<[index |-> 0, id |-> Null, name |-> Null,
                             arguments |-> frags[i + 1]]>>, Null)>>])
    \o <<Chunk(Null, <<>>, "tool_calls")>>

InitStream ==
    /\ builtInProviders = <<GitMcpProvider, FileSystemMcpProvider>>
    /\ objs = <<>>
    /\ userProviders = <<>>
    /\ tasks = {}
    /\ lastReturn = NoReturn
    /\ llmConfig \in {c \in LLMConfigs : PreflightError(c) = <<>>}
    /\ history = <<>>
    /\ run = IdleRun
    /\ \E frags \in FragmentLists, gaps \in BOOLEAN :
          gen = [IdleGen EXCEPT !.raw = FragmentStream(frags, gaps),
                                !.stream = FragmentStream(frags, gaps)]
    /\ view = IdleView
    /\ twin = IdleRun
    /\ pure = NoCall

\* The caller reads the generator: one chunk of the backend's stream is
\* processed and what it yields is collected.
ChatStreamNext ==
    /\ gen.stream # <<>>
    /\ LET step == StreamStep(gen.acc, Head(gen.stream))
       IN  gen' = [gen EXCEPT !.stream = Tail(gen.stream), !.acc = step.acc,
                              !.events = @ \o step.events]
    /\ UNCHANGED <<regVars, view, twin, pure, llmConfig, history, run>>

\* The content deltas of a stream, joined, or Null when there is none.
RECURSIVE JoinedContent(_)
JoinedContent(raw) ==
    IF raw = <<>> THEN ""
    ELSE (IF Falsy(Head(raw).content) THEN "" ELSE Head(raw).content)
         \o JoinedContent(Tail(raw))

\* The deltas of a stream, in arrival order.
Deltas(raw) == Flatten([i \in 1..Len(raw) |-> raw[i].tool_calls])

\* The argument fragments of the tool call `index`, joined in arrival order.
RECURSIVE JoinedArguments(_, _)
JoinedArguments(deltas, index) ==
    IF deltas = <<>> THEN ""
    ELSE (IF Head(deltas).index = index /\ ~Falsy(Head(deltas).arguments)
          THEN Head(deltas).arguments ELSE "")
         \o JoinedArguments(Tail(deltas), index)

\* choices[0].message the backend returns, not streamed, for the response it
\* streams as `raw` (one tool call, index 0).
Unstreamed(raw) ==
    [content |-> OrElse(JoinedContent(raw), Null),
     tool_calls |-> <<[id |-> CallId(1, 1), name |-> "read_file",
                       arguments |-> JoinedArguments(Deltas(raw), 0)]>>]

\* chat() resolves for the same response.
ChatOfSameResponse ==
    /\ gen.raw # <<>>
    /\ run.response.toolCalls = <<>>
    /\ run' = [run EXCEPT !.response = ChatResponse(Unstreamed(gen.raw))]
    /\ UNCHANGED <<regVars, view, twin, pure, llmConfig, history, gen>>

NextStream ==
    \/ ChatStreamNext
    \/ ChatOfSameResponse

SpecStream == InitStream /\ [][NextStream]_vars

-----------------------------------------------------------------------------
(* The registry used by one caller at a time: a call is made only when no    *)
(* other call is in flight.                                                  *)

InitRegistry ==
    /\ builtInProviders = <<GitMcpProvider, FileSystemMcpProvider>>
    /\ objs = <<>>
    /\ userProviders = <<>>
    /\ tasks = {}
    /\ lastReturn = NoReturn
    /\ llmConfig \in {c \in LLMConfigs : ValidateConfig(c) = <<>> /\ c.provider = "openai"}
    /\ history = <<>>
    /\ run = IdleRun
    /\ gen = IdleGen
    /\ view = IdleView
    /\ twin = IdleRun
    /\ pure = NoCall

Idle == tasks = {}

NextRegistry ==
    \/ \E p \in ExtraProviders : RegisterProvider(p)
    \/ \E name \in UserNames, config \in Configs : Idle /\ RegisterUserMcpServer(name, config)
    \/ Idle /\ ClearUserProviders
    \/ Idle /\ AggregateContext
    \/ \E toolName \in ToolNameInputs, args \in ArgInputs : Idle /\ ExecuteTool(toolName, args)
    \/ \E t \in tasks : StopResume(t)
    \/ \E t \in tasks : RegisterAfterStop(t)
    \/ \E t \in tasks : ConnectResume(t)
    \/ \E t \in tasks : ListResume(t)
    \/ \E t \in tasks : RegisterReturn(t)
    \/ \E t \in tasks : ClearResume(t)
    \/ \E t \in tasks : AggregateResume(t)

SpecRegistry == InitRegistry /\ [][NextRegistry]_vars

-----------------------------------------------------------------------------
(* The registry with calls that are not awaited: extension.ts calls           *)
(* loadUserMcpServers without awaiting it, at activation and on every change  *)
(* of the configuration, and SettingsViewProvider.loadUserMcpServers awaits   *)
(* neither clearUserProviders nor registerUserMcpServer. A call can therefore *)
(* be made while others are suspended at an await.                            *)

MaxCalls == 2       \* registry calls in flight at a time

\* The configurations of the servers registered by overlapping calls: one
\* that starts and one whose connect fails.
OverlapConfigs == {c \in Configs : ~c.disabled /\ c.command \in {GoodCmd, BadCmd}}

CallsInFlight == Cardinality({t \in tasks : t.op # "stop"})

NextOverlapping ==
    \/ \E name \in UserNames, config \in OverlapConfigs :
          CallsInFlight < MaxCalls /\ RegisterUserMcpServer(name, config)
    \/ CallsInFlight < MaxCalls /\ ClearUserProviders
    \/ \E t \in tasks : StopResume(t)
    \/ \E t \in tasks : RegisterAfterStop(t)
    \/ \E t \in tasks : ConnectResume(t)
    \/ \E t \in tasks : ListResume(t)
    \/ \E t \in tasks : RegisterReturn(t)
    \/ \E t \in tasks : ClearResume(t)

SpecOverlapping == InitRegistry /\ [][NextOverlapping]_vars

-----------------------------------------------------------------------------
(* TraycerViewProvider: the chat session's sendMessage handler around         *)
(* executePhaseStream                                                         *)

MaxRequests == 2    \* sendMessage requests of a session

UpperCase == "ABCDEFGHIJKLMNOPQRSTUVWXYZ"
LowerCase == "abcdefghijklmnopqrstuvwxyz"

LowerChar(c) ==
    IF \E i \in 1..Len(UpperCase) : SubSeq(UpperCase, i, i) = c
    THEN LET i == CHOOSE k \in 1..Len(UpperCase) : SubSeq(UpperCase, k, k) = c
         IN  SubSeq(LowerCase, i, i)
    ELSE c

\* message.toLowerCase()
RECURSIVE ToLowerCase(_)
ToLowerCase(message) ==
    IF message = "" THEN ""
    ELSE LowerChar(SubSeq(message, 1, 1)) \o ToLowerCase(SubSeq(message, 2, Len(message)))

\* Mutant of DeterminePhase: 'phase' is looked for before 'review'.
DeterminePhasePhaseFirst(message) ==
    LET lowerMessage == ToLowerCase(message)
    IN  IF lowerMessage \in {"plan", "review", "phases"} THEN lowerMessage
        ELSE IF Includes(lowerMessage, "phase") THEN "phases"
        ELSE IF Includes(lowerMessage, "review") THEN "review"
        ELSE "plan"

\* _determinePhase(message)
DeterminePhase(message) ==
    LET lowerMessage == ToLowerCase(message)
    IN  IF lowerMessage \in {"plan", "review", "phases"} THEN lowerMessage
        ELSE IF Includes(lowerMessage, "review") THEN "review"
        ELSE IF Includes(lowerMessage, "phase") THEN "phases"
        ELSE "plan"

\* What the user sends, and what the backend does with the conversation.
UserMessages == {"Plan", "please REVIEW it", "next phase"}
ViewScripts == {<<>>} \cup {<<reply>> : reply \in {r \in ToolReplies : r.content = Null}}

SetLoading(value) == [type |-> "setLoading", value |-> value]
StreamComplete(fullResponse, phase) ==
    [type |-> "streamComplete", value |-> fullResponse, phase |-> phase]

\* Mutant of HandleSendMessage: the guard on _isProcessing is missing.
HandleSendMessageUnguarded(userMessage, script) ==
    /\ view.received < MaxRequests
    /\ view' = [view EXCEPT !.received = @ + 1, !.isProcessing = TRUE,
                            !.inFlight = @ + 1, !.posted = <<SetLoading(TRUE)>>]
    /\ run' = StartPhase("stream", DeterminePhase(userMessage), script)
    /\ UNCHANGED <<regVars, twin, pure, llmConfig, history, gen>>

\* onDidReceiveMessage with a sendMessage request: _handleSendMessage up to
\* the await of executePhaseStream, or to its early return.
HandleSendMessage(userMessage, script) ==
    /\ view.received < MaxRequests
    /\ IF view.isProcessing
       THEN /\ view' = [view EXCEPT !.received = @ + 1]
            /\ UNCHANGED run
       ELSE /\ view' = [view EXCEPT !.received = @ + 1, !.isProcessing = TRUE,
                                    !.inFlight = @ + 1, !.posted = <<SetLoading(TRUE)>>]
            /\ run' = StartPhase("stream", DeterminePhase(userMessage), script)
    /\ UNCHANGED <<regVars, twin, pure, llmConfig, history, gen>>

\* Mutant of SendMessageReturns: the finally block does not reset the flag.
SendMessageReturnsKeepsFlag ==
    /\ run.pc = "returned"
    /\ view' = [view EXCEPT !.inFlight = @ - 1,
                            !.posted = @ \o <<StreamComplete(Join(run.emitted, ""), run.phase),
                                              SetLoading(FALSE)>>]
    /\ run' = IdleRun
    /\ UNCHANGED <<regVars, twin, pure, llmConfig, history, gen>>

\* `await this._phaseRunner.executePhaseStream(...)` resumes: streamComplete
\* is posted with the chunks joined, then the finally block runs.
SendMessageReturns ==
    /\ run.pc = "returned"
    /\ view' = [view EXCEPT !.isProcessing = FALSE, !.inFlight = @ - 1,
                            !.posted = @ \o <<StreamComplete(Join(run.emitted, ""), run.phase),
                                              SetLoading(FALSE)>>]
    /\ run' = IdleRun
    /\ UNCHANGED <<regVars, twin, pure, llmConfig, history, gen>>

NextView ==
    \/ \E userMessage \in UserMessages, script \in ViewScripts :
          HandleSendMessage(userMessage, script)
    \/ \E failing \in SUBSET CanFail(builtInProviders, userProviders) : AggregateDone(failing)
    \/ ToolReturns
    \/ StreamOpens
    \/ StreamRead
    \/ StreamFails
    \/ StreamEnds
    \/ SendMessageReturns

SpecView == Init /\ [][NextView]_vars

-----------------------------------------------------------------------------
(* executePhase, then executePhaseStream on the same runner with a backend    *)
(* that behaves the second time as it did the first: the same replies, the    *)
(* same context, a failure at the same gateway call                           *)

\* A tool-requesting reply whose content is the empty string.
EmptyContentReply == [content |-> "", calls |-> <<CallRead>>]

TwinScripts == SeqsUpTo(ToolReplies \cup {EmptyContentReply}, 1)

\* The errors a gateway call of the invocation can throw.
GatewayErrors ==
    {o.error : o \in {x \in GatewayOutcomes(llmConfig, run.script, 1) : x.threw}}

\* The message the backend sent as its n-th reply to the first invocation.
TwinReply(n) ==
    IF n = twin.gatewayCalls /\ twin.outcome = "Done"
    THEN BackendMessage([content |-> twin.response.content, calls |-> <<>>], n)
    ELSE BackendMessage(twin.script[((n - 1) % Len(twin.script)) + 1], n)

\* The first invocation failed at the gateway call the second one is in.
FailedHere == twin.outcome = "Fatal" /\ run.gatewayCalls = twin.gatewayCalls

\* The second invocation ended on the error the first one ended on.
SameFailure ==
    /\ run.pc = "returned" /\ FailedHere
    /\ \E e \in GatewayErrors :
          /\ twin.output = CatchOutput("buffered", e)
          /\ run.output = CatchOutput("stream", e)

\* The second aggregateContext gave what the first one gave.
SameContext == run.mode = "stream" => run.messages = SubSeq(twin.messages, 1, 2)

\* The n-th call of the gateway does what it did in the first invocation: it
\* throws the same error, or streams the same reply (any reply, if the
\* failure is still to come in mid-stream).
SameReply ==
    IF run.pc = "returned" THEN SameFailure
    ELSE /\ run.gatewayCalls <= twin.gatewayCalls
         /\ FailedHere \/ gen.raw = EncodeStream(TwinReply(run.gatewayCalls))

\* executePhase has returned: executePhaseStream is called for the same phase.
SecondCall ==
    /\ run.pc = "returned" /\ run.mode = "buffered"
    /\ twin' = run
    /\ run' = StartPhase("stream", run.phase, run.script)
    /\ UNCHANGED <<regVars, view, pure, llmConfig, history, gen>>

NextTwin ==
    \/ \E type \in PhaseTypes, script \in TwinScripts : ExecutePhase("buffered", type, script)
    \/ \E failing \in SUBSET CanFail(builtInProviders, userProviders) :
          AggregateDone(failing) /\ SameContext'
    \/ ChatReturns
    \/ ToolReturns
    \/ SecondCall
    \/ StreamOpens /\ SameReply'
    \/ StreamRead /\ (FailedHere => Len(gen.stream) > 1)
    \/ StreamFails /\ SameFailure'
    \/ StreamEnds

SpecTwin == Init /\ [][NextTwin]_vars

-----------------------------------------------------------------------------
(* LLMClient.chatStream over streams with several tool calls *)

MaxDeltas == 3      \* tool-call deltas of a streamed response

\* The positional indices of the deltas of a response, in arrival order.
IndexOrders == SeqsUpTo({0, 1, 2}, MaxDeltas) \ {<<>>}

\* The stream whose deltas carry the given indices, one delta per chunk: the
\* first delta of an index carries the call's id and name, every delta a
\* fragment of the arguments; the last chunk carries the finish_reason.
IndexStream(order) ==
    [k \in 1..Len(order) |->
        LET first == \A h \in 1..(k - 1) : order[h] # order[k]
        IN  Chunk(Null, <<[index |-> order[k],
                           id |-> IF first THEN CallId(1, order[k] + 1) ELSE Null,
                           name |-> IF first THEN "read_file" ELSE Null,
                           arguments |-> IF first THEN "{" ELSE "}"]>>, Null)]
    \o <<Chunk(Null, <<>>, "tool_calls")>>

InitIndexed ==
    /\ builtInProviders = <<GitMcpProvider, FileSystemMcpProvider>>
    /\ objs = <<>>
    /\ userProviders = <<>>
    /\ tasks = {}
    /\ lastReturn = NoReturn
    /\ llmConfig \in {c \in LLMConfigs : PreflightError(c) = <<>>}
    /\ history = <<>>
    /\ run = IdleRun
    /\ \E order \in IndexOrders :
          gen = [IdleGen EXCEPT !.raw = IndexStream(order), !.stream = IndexStream(order)]
    /\ view = IdleView
    /\ twin = IdleRun
    /\ pure = NoCall

NextIndexed == ChatStreamNext

SpecIndexed == InitIndexed /\ [][NextIndexed]_vars

-----------------------------------------------------------------------------
(* An invocation of executePhase while the registry is reconfigured *)

\* A call of a tool of the external server "srv" that the server answers.
CallSrvRead == [name |-> "srv__read_file", arguments |-> ArgsRead]

\* The backend asks for that tool in every reply that requests tools.
LiveScripts == {<<[content |-> Null, calls |-> <<CallSrvRead>>]>>}

LiveTurns == 2      \* replies of the backend that request tools, per invocation

InFlight == run.pc \notin {"idle", "returned"}

\* The loop's steps (the backend gives its final reply after at most LiveTurns
\* replies that request tools), and the registry calls of a configuration reload or of
\* the settings panel made while the invocation is in flight, with their
\* resumptions in any order.
NextLive ==
    \/ \E type \in {"plan"}, script \in LiveScripts : ExecutePhase("buffered", type, script)
    \/ \E failing \in SUBSET CanFail(builtInProviders, userProviders) : AggregateDone(failing)
    \/ ChatReturns /\ (run.gatewayCalls > LiveTurns => run'.pc = "returned")
    \/ ToolReturns
    \/ \E config \in {c \in OverlapConfigs : c.command = GoodCmd} :
          InFlight /\ CallsInFlight < MaxCalls /\ RegisterUserMcpServer("srv", config)
    \/ InFlight /\ CallsInFlight < MaxCalls /\ ClearUserProviders
    \/ \E t \in tasks : StopResume(t)
    \/ \E t \in tasks : RegisterAfterStop(t)
    \/ \E t \in tasks : ConnectResume(t)
    \/ \E t \in tasks : ListResume(t)
    \/ \E t \in tasks : RegisterReturn(t)
    \/ \E t \in tasks : ClearResume(t)

SpecLive == Init /\ [][NextLive]_vars

-----------------------------------------------------------------------------
(* A streaming invocation over streams with or without a finish_reason *)

\* The stream without its last chunk: the backend ends the stream, without an
\* error, before a chunk with a finish_reason.
WithoutFinish(stream) == SubSeq(stream, 1, Len(stream) - 1)

\* The streams the backend may send for a message.
StreamsOf(message) == {EncodeStream(message), WithoutFinish(EncodeStream(message))}

\* The first read of the chatStream generator when the request succeeds: the
\* backend starts to stream its message.
StreamOpensAny ==
    /\ run.pc = "chat" /\ run.mode = "stream"
    /\ \E out \in {o \in GatewayOutcomes(llmConfig, run.script, run.gatewayCalls) : ~o.threw} :
       \E stream \in StreamsOf(out.message) :
          /\ run' = [run EXCEPT !.pc = "stream"]
          /\ gen' = [IdleGen EXCEPT !.raw = stream, !.stream = stream]
    /\ UNCHANGED <<regVars, view, twin, pure, llmConfig, history>>

NextEnding ==
    \/ \E type \in PhaseTypes, script \in SeqsUpTo(ToolReplies, 1) :
          ExecutePhase("stream", type, script)
    \/ \E failing \in SUBSET CanFail(builtInProviders, userProviders) : AggregateDone(failing)
    \/ StreamOpensAny
    \/ StreamRead
    \/ StreamEnds
    \/ ToolReturns

SpecEnding == Init /\ [][NextEnding]_vars

-----------------------------------------------------------------------------
(* The chat session with a callback that may throw, and its progress *)

ErrorPosted(message) == [type |-> "error", value |-> message]

\* The callback throws on a content chunk (postMessage on a disposed webview)
\* and throws again when the catch block of executePhaseStream hands it the
\* error text: executePhaseStream rejects without a PhaseResult, and the catch
\* and finally blocks of _handleSendMessage run.
CallbackThrows ==
    /\ run.pc = "stream" /\ gen.stream # <<>>
    /\ ~Falsy(Head(gen.stream).content)
    /\ view.isProcessing
    /\ view' = [view EXCEPT !.isProcessing = FALSE, !.inFlight = @ - 1,
                            !.posted = @ \o <<ErrorPosted("Webview is disposed"),
                                              SetLoading(FALSE)>>]
    /\ run' = IdleRun
    /\ gen' = IdleGen
    /\ UNCHANGED <<regVars, twin, pure, llmConfig, history>>

\* The steps in which an await of the invocation settles or the handler resumes.
Settles ==
    \/ \E failing \in SUBSET CanFail(builtInProviders, userProviders) : AggregateDone(failing)
    \/ ToolReturns
    \/ StreamOpens
    \/ StreamRead
    \/ StreamFails
    \/ StreamEnds
    \/ CallbackThrows
    \/ SendMessageReturns

NextSession ==
    \/ \E userMessage \in {"Plan"}, script \in ViewScripts :
          HandleSendMessage(userMessage, script)
    \/ Settles

\* Every await settles (the gateway client has a timeout, a tool returns or
\* throws) and a resumed handler runs to its end.
SpecSession == Init /\ [][NextSession]_vars /\ WF_vars(Settles)

-----------------------------------------------------------------------------
(* The runner's history: getHistory, clearHistory and the chat session *)

MaxClears == 1      \* clearHistory requests between two accepted sendMessage requests
MaxChanges == 1     \* changes the holder of a returned list makes to it

HistoryCleared == [type |-> "historyCleared"]

\* Mutant of GetHistory: the runner's own list is returned.
GetHistoryAliased == [alias |-> TRUE, items |-> history]

\* getHistory(): a new list with the entries of the history. `alias` tells
\* whether the list returned is the runner's own list object.
GetHistory == [alias |-> FALSE, items |-> history]

\* A caller (_handleSendMessage, for the PhaseContext it builds) calls
\* getHistory() and keeps the list.
CallGetHistory ==
    /\ pure' = [fn |-> "getHistory", returned |-> TRUE, changes |-> 0, result |-> GetHistory]
    /\ UNCHANGED <<regVars, llmConfig, history, run, gen, view, twin>>

\* What the holder of a list can do to it: push an entry, pop the last one,
\* overwrite the first one, empty the list.
Forged == [phase |-> "plan", output |-> "forged"]

ListChanges(items) ==
    {Append(items, Forged), <<>>}
    \cup (IF items = <<>> THEN {}
          ELSE {SubSeq(items, 1, Len(items) - 1), <<Forged>> \o Tail(items)})

\* The holder of the list getHistory() returned changes it in place; the
\* runner's history changes with it exactly when it is the same list object.
ChangeReturnedList ==
    /\ pure.fn = "getHistory" /\ pure.changes < MaxChanges
    /\ \E items \in ListChanges(pure.result.items) \ {pure.result.items} :
          /\ pure' = [pure EXCEPT !.changes = @ + 1, !.result.items = items]
          /\ history' = IF pure.result.alias THEN items ELSE history
    /\ UNCHANGED <<regVars, llmConfig, run, gen, view, twin>>

\* Mutant of ClearHistory: the request is dropped while _isProcessing is set.
ClearHistoryGuarded ==
    /\ ~view.isProcessing
    /\ Cardinality({i \in 1..Len(view.posted) : view.posted[i].type = "historyCleared"}) < MaxClears
    /\ history' = <<>>
    /\ view' = [view EXCEPT !.posted = Append(@, HistoryCleared)]
    /\ UNCHANGED <<regVars, llmConfig, run, gen, twin, pure>>

\* onDidReceiveMessage with a clearHistory request: the runner's history is
\* replaced by a new empty list and historyCleared is posted.
ClearHistory ==
    /\ Cardinality({i \in 1..Len(view.posted) : view.posted[i].type = "historyCleared"}) < MaxClears
    /\ history' = <<>>
    /\ view' = [view EXCEPT !.posted = Append(@, HistoryCleared)]
    /\ UNCHANGED <<regVars, llmConfig, run, gen, twin, pure>>

NextHistory ==
    \/ \E userMessage \in {"Plan", "next phase"} : HandleSendMessage(userMessage, <<>>)
    \/ \E failing \in SUBSET CanFail(builtInProviders, userProviders) : AggregateDone(failing)
    \/ StreamOpens
    \/ StreamRead
    \/ StreamFails
    \/ StreamEnds
    \/ SendMessageReturns
    \/ CallGetHistory
    \/ ChangeReturnedList
    \/ ClearHistory

SpecHistory == Init /\ [][NextHistory]_vars

-----------------------------------------------------------------------------
(* clearHistory during an invocation that holds a snapshot of the history *)

\* _handleSendMessage with the PhaseContext it builds: `history:
\* this._phaseRunner.getHistory()` is the list handed to executePhaseStream.
HandleSendMessageWithContext(userMessage, script) ==
    /\ view.received < MaxRequests
    /\ IF view.isProcessing
       THEN /\ view' = [view EXCEPT !.received = @ + 1]
            /\ UNCHANGED <<run, pure>>
       ELSE /\ view' = [view EXCEPT !.received = @ + 1, !.isProcessing = TRUE,
                                    !.inFlight = @ + 1, !.posted = <<SetLoading(TRUE)>>]
            /\ run' = StartPhase("stream", DeterminePhase(userMessage), script)
            /\ pure' = [fn |-> "getHistory", returned |-> TRUE, changes |-> 0,
                        result |-> GetHistory]
    /\ UNCHANGED <<regVars, twin, llmConfig, history, gen>>

NextClearing ==
    \/ \E userMessage \in {"Plan", "next phase"} : HandleSendMessageWithContext(userMessage, <<>>)
    \/ \E failing \in SUBSET CanFail(builtInProviders, userProviders) : AggregateDone(failing)
    \/ StreamOpens
    \/ StreamRead
    \/ StreamFails
    \/ StreamEnds
    \/ SendMessageReturns
    \/ run.pc # "returned" /\ ClearHistory

\* The continuation of `await executePhaseStream(...)` is a microtask queued
\* when the invocation returns: it runs before the next message is handled.
SpecClearing == Init /\ [][NextClearing]_vars

-----------------------------------------------------------------------------
(* TraycerViewProvider._determinePhase on free text *)

MaxWords == 2       \* a message is made of at most this many pieces

\* The pieces messages are made of: the mode names and the keywords, in
\* several spellings, and text that matches nothing.
Pieces == {"plan", "Review", "review", "PHASES", "phase", "Phase", "s", " it"}

RECURSIVE Concat(_)
Concat(parts) == IF parts = <<>> THEN "" ELSE Head(parts) \o Concat(Tail(parts))

PhaseInputs == {Concat(parts) : parts \in SeqsUpTo(Pieces, MaxWords)}

InitPhase ==
    /\ builtInProviders = <<GitMcpProvider, FileSystemMcpProvider>>
    /\ objs = <<>>
    /\ userProviders = <<>>
    /\ tasks = {}
    /\ lastReturn = NoReturn
    /\ llmConfig \in {c \in LLMConfigs : ValidateConfig(c) = <<>> /\ c.provider = "openai"}
    /\ history = <<>>
    /\ run = IdleRun
    /\ gen = IdleGen
    /\ view = IdleView
    /\ twin = IdleRun
    /\ pure \in {[fn |-> "_determinePhase", arg |-> message, returned |-> FALSE, result |-> ""] :
                    message \in PhaseInputs}

\* _determinePhase(message) returns.
DeterminePhaseReturns ==
    /\ pure.fn = "_determinePhase" /\ ~pure.returned
    /\ pure' = [pure EXCEPT !.returned = TRUE, !.result = DeterminePhase(pure.arg)]
    /\ UNCHANGED <<regVars, llmConfig, history, run, gen, view, twin>>

NextPhase == DeterminePhaseReturns

SpecPhase == InitPhase /\ [][NextPhase]_vars

-----------------------------------------------------------------------------
(* LLMClient.chat and chatStream up to their first request *)

\* The settings a client can be configured with: each backend kind (one
\* that is not in PROVIDER_DEFAULTS included), each field empty, made of
\* white space, or filled in.
ConfigInputs ==
    [provider : {"openai", "ollama", "custom", "elsewhere"},
     apiKey : {"", "  ", "sk-1"},
     baseUrl : {"", " ", "http://localhost:11434/v1"},
     model : {"", " ", "llama3.2"}]

InitConfig ==
    /\ builtInProviders = <<GitMcpProvider, FileSystemMcpProvider>>
    /\ objs = <<>>
    /\ userProviders = <<>>
    /\ tasks = {}
    /\ lastReturn = NoReturn
    /\ llmConfig \in ConfigInputs
    /\ history = <<>>
    /\ run = IdleRun
    /\ gen = IdleGen
    /\ view = IdleView
    /\ twin = IdleRun
    /\ pure \in {[fn |-> fn, returned |-> FALSE, threw |-> FALSE, requests |-> 0, error |-> Error("")] :
                    fn \in {"chat", "chatStream"}}

\* chat(messages, tools), or the first next() of chatStream(messages, tools),
\* runs up to the point where it throws or hands the request to the client.
ChatPreflight ==
    /\ pure.fn \in {"chat", "chatStream"} /\ ~pure.returned
    /\ pure' = IF PreflightError(llmConfig) # <<>>
               THEN [pure EXCEPT !.returned = TRUE, !.threw = TRUE,
                                 !.error = PreflightError(llmConfig)[1]]
               ELSE [pure EXCEPT !.returned = TRUE, !.requests = 1]
    /\ UNCHANGED <<regVars, llmConfig, history, run, gen, view, twin>>

NextConfig == ChatPreflight

SpecConfig == InitConfig /\ [][NextConfig]_vars

-----------------------------------------------------------------------------
(* ErrorLogger.classifyError on errors with several indicators *)

\* The errors classified: a transport status or none (0), an error code or
\* none, a message with or without 'timeout', with or without a response.
ErrorInputs ==
    [status : {0, 400, 401, 403, 404, 408, 429, 500, 503},
     code : {"", "ECONNREFUSED", "ENOTFOUND", "ENETUNREACH", "ETIMEDOUT", "EPIPE"},
     message : {"request failed", "Request timeout exceeded"},
     response : BOOLEAN]

InitClassify ==
    /\ builtInProviders = <<GitMcpProvider, FileSystemMcpProvider>>
    /\ objs = <<>>
    /\ userProviders = <<>>
    /\ tasks = {}
    /\ lastReturn = NoReturn
    /\ llmConfig \in {c \in LLMConfigs : ValidateConfig(c) = <<>> /\ c.provider = "openai"}
    /\ history = <<>>
    /\ run = IdleRun
    /\ gen = IdleGen
    /\ view = IdleView
    /\ twin = IdleRun
    /\ pure \in {[fn |-> "classifyError", arg |-> error, returned |-> FALSE, result |-> ""] :
                    error \in ErrorInputs}

\* classifyError(error) returns.
ClassifyErrorReturns ==
    /\ pure.fn = "classifyError" /\ ~pure.returned
    /\ pure' = [pure EXCEPT !.returned = TRUE, !.result = ClassifyError(pure.arg)]
    /\ UNCHANGED <<regVars, llmConfig, history, run, gen, view, twin>>

NextClassify == ClassifyErrorReturns

SpecClassify == InitClassify /\ [][NextClassify]_vars

-----------------------------------------------------------------------------
(* A failed gateway call as the buffered loop records it *)

InitFailure ==
    /\ builtInProviders = <<GitMcpProvider, FileSystemMcpProvider>>
    /\ objs = <<>>
    /\ userProviders = <<>>
    /\ tasks = {}
    /\ lastReturn = NoReturn
    /\ llmConfig \in {c \in LLMConfigs : ValidateConfig(c) = <<>> /\ c.provider = "openai"}
    /\ history = <<>>
    /\ run = IdleRun
    /\ gen = IdleGen
    /\ view = IdleView
    /\ twin = IdleRun
    /\ pure \in {[fn |-> "chat", arg |-> error, returned |-> FALSE, thrown |-> Error(""),
                  errorType |-> "", output |-> ""] : error \in ErrorInputs}

\* The request of chat() fails with pure.arg: chat throws handleApiError(error),
\* the catch of executePhase classifies what was thrown and takes the
\* user-facing message of that class as the output.
ChatFailureCaught ==
    /\ pure.fn = "chat" /\ ~pure.returned
    /\ LET err == HandleApiError(pure.arg)
       IN  pure' = [pure EXCEPT !.returned = TRUE, !.thrown = err,
                                !.errorType = ClassifyError(err),
                                !.output = CatchOutput("buffered", err)]
    /\ UNCHANGED <<regVars, llmConfig, history, run, gen, view, twin>>

NextFailure == ChatFailureCaught

SpecFailure == InitFailure /\ [][NextFailure]_vars

-----------------------------------------------------------------------------
(* Claims about the registry, checked under SpecRegistry *)

\* C1: when aggregateContext returns, it returned normally, every provider of
\* the snapshot was asked, every provider whose provideContext succeeded has an
\* entry under its name, a failed provider contributed no entry, and every
\* entry is the context of a provider that succeeded.
C1_AggregateIsolatesFailures ==
    lastReturn.op = "aggregate" =>
        LET got == lastReturn.got
            res == lastReturn.result
        IN  /\ ~lastReturn.threw
            /\ Len(got) = Len(lastReturn.snap)
            /\ \A i \in 1..Len(got) : got[i].ok => got[i].name \in DOMAIN res
            /\ \A i \in 1..Len(got) :
                 ~got[i].ok =>
                    \/ got[i].name \notin DOMAIN res
                    \/ \E j \in 1..Len(got) :
                         got[j].ok /\ got[j].name = got[i].name /\ res[got[j].name] = got[j].value
            /\ \A k \in DOMAIN res :
                 \E j \in 1..Len(got) : got[j].ok /\ got[j].name = k /\ res[k] = got[j].value

\* C1 witness: a provider failed, and a provider asked before it and one asked
\* after it both have their entries.
C1_Witness ==
    /\ lastReturn.op = "aggregate"
    /\ \E i, j, k \in 1..Len(lastReturn.got) :
         /\ i < j /\ j < k
         /\ lastReturn.got[i].ok /\ ~lastReturn.got[j].ok /\ lastReturn.got[k].ok
         /\ lastReturn.got[j].name \notin DOMAIN lastReturn.result
         /\ lastReturn.got[i].name \in DOMAIN lastReturn.result
         /\ lastReturn.got[k].name \in DOMAIN lastReturn.result

\* C6 (as claimed): the names in getAllTools() are pairwise distinct.
C6_CatalogNamesDistinct == NoDuplicates(ToolNames(GetAllTools))

\* C7 (as claimed): every tool of getAllTools() is named <provider>__<local name>.
C7_EveryToolNamespaced ==
    \A i \in 1..Len(GetAllTools) :
        GetAllTools[i].name =
            NamespacedName(HandleName(GetAllTools[i].owner, builtInProviders, objs),
                           GetAllTools[i].local)

\* A command that cannot be spawned or connected.
Unstartable(config) == config.command \in {BadCmd, ""}

\* C10: after registerUserMcpServer returned for a command that cannot be
\* spawned or connected, it did not throw, the provider is registered under
\* its name, is not connected, owns no tool of getAllTools(), and whatever
\* other providers fail, aggregateContext has an entry for it with connected: false.
C10_FailedStartStaysRegistered ==
    (lastReturn.op = "register" /\ Unstartable(lastReturn.config)) =>
        /\ ~lastReturn.threw
        /\ MapGet(userProviders, lastReturn.name) = lastReturn.obj
        /\ ~objs[lastReturn.obj].connected
        /\ \A i \in 1..Len(GetAllTools) :
             GetAllTools[i].owner # ExternalHandle(lastReturn.obj)
        /\ \A failing \in SUBSET CanFail(builtInProviders, userProviders) :
             LET res == AggregateAll(builtInProviders, objs, userProviders, failing)
             IN  /\ lastReturn.name \in DOMAIN res
                 /\ res[lastReturn.name] = ExternalContext(objs[lastReturn.obj])
                 /\ res[lastReturn.name].connected = FALSE

\* C10 witness: a registration with a command that cannot be spawned returned,
\* replacing a provider that had been connected under the same name.
C10_Witness ==
    /\ lastReturn.op = "register" /\ lastReturn.config.command = BadCmd
    /\ lastReturn.obj = 2 /\ objs[1].name = lastReturn.name
    /\ objs[1].config.command = GoodCmd
    /\ objs[2].client = "null" /\ objs[2].transport = "null"

\* The catalog positions whose entry has the name executeTool was called with.
C14_Advertised ==
    {i \in 1..Len(GetAllTools) : GetAllTools[i].name = lastReturn.toolName}

\* C14: executeTool throws "Tool <name> not found", calling no tool, exactly
\* when no registered provider advertises a tool of that name; otherwise it
\* calls execute once, on the first catalog entry of that name, and what that
\* call returns or throws is what executeTool returns or throws.
C14_ExecuteToolDispatch ==
    lastReturn.op = "executeTool" =>
        IF C14_Advertised = {}
        THEN /\ lastReturn.invoked = <<>>
             /\ lastReturn.result = Threw("Tool " \o lastReturn.toolName \o " not found")
        ELSE LET first == CHOOSE i \in C14_Advertised : \A k \in C14_Advertised : i <= k
             IN  /\ lastReturn.invoked = <<GetAllTools[first]>>
                 /\ lastReturn.result = Execute(GetAllTools[first], lastReturn.args, objs)
                 /\ lastReturn.result # Threw("Tool " \o lastReturn.toolName \o " not found")

\* Both cases happened: an external tool was called by its namespaced name and
\* returned; the server-side name of a tool was not found.
C14_Witness ==
    /\ lastReturn.op = "executeTool"
    /\ lastReturn.toolName = "srv__read_file"
    /\ Len(lastReturn.invoked) = 1
    /\ ~lastReturn.result.threw

C14_WitnessNotFound ==
    /\ lastReturn.op = "executeTool"
    /\ lastReturn.toolName = "run"
    /\ \E i \in 1..Len(GetAllTools) : GetAllTools[i].local = "run"
    /\ lastReturn.result.threw

\* A provider object that holds nothing of a running server.
Stopped(o) ==
    o.client = "null" /\ o.transport = "null" /\ ~o.connected /\ o.tools = <<>>

\* The provider objects created so far under a name.
ObjsNamed(name) == {r \in 1..Len(objs) : objs[r].name = name}

\* C15: after registerUserMcpServer(name, config) returned, the external set
\* has exactly one provider under that name, the one built from the new
\* config; ...
C15_AfterRegister ==
    lastReturn.op = "register" =>
        /\ Cardinality({i \in 1..Len(userProviders) :
                           userProviders[i].name = lastReturn.name}) = 1
        /\ MapGet(userProviders, lastReturn.name) = lastReturn.obj
        /\ objs[lastReturn.obj].name = lastReturn.name
        /\ objs[lastReturn.obj].config = lastReturn.config

\* ... the provider it replaces was stopped, client and transport closed,
\* when the new one is created and started; ...
C15_ReplaceStep ==
    Len(objs') = Len(objs) + 1 =>
        \A r \in ObjsNamed(objs'[Len(objs')].name) : Stopped(objs[r])

\* ... and of the providers created under one name at most one is ever live.
C15_OneLivePerName ==
    \A r1, r2 \in 1..Len(objs) :
        (r1 # r2 /\ objs[r1].name = objs[r2].name) => Stopped(objs[r1]) \/ Stopped(objs[r2])

C15_RegisterReplaces ==
    /\ [](C15_AfterRegister /\ C15_OneLivePerName)
    /\ [][C15_ReplaceStep]_vars

\* A connected provider was replaced under its name by a new connected one.
C15_Witness ==
    /\ lastReturn.op = "register"
    /\ lastReturn.obj = 2
    /\ objs[1].name = objs[2].name
    /\ objs[1].config.command = GoodCmd /\ ~objs[1].config.disabled
    /\ objs[2].connected /\ objs[2].tools # <<>>

\* C16: after clearUserProviders() returned, every external provider that
\* was registered is stopped, the external set is empty and getAllTools()
\* has the tools of the built-in providers only; the call leaves the list of
\* built-in providers as it was.
C16_AfterClear ==
    lastReturn.op = "clear" =>
        /\ userProviders = <<>>
        /\ \A r \in 1..Len(objs) : Stopped(objs[r])
        /\ \A i \in 1..Len(GetAllTools) : GetAllTools[i].owner.builtIn
        /\ GetAllTools = Flatten([i \in 1..Len(builtInProviders) |->
                             ProviderTools(BuiltInHandle(i), builtInProviders, objs)])

\* The steps of clearUserProviders itself (the call, a close of one of its
\* stops, its return) do not touch the built-in list, and no step of the
\* registry removes a built-in provider.
C16_ClearTasks(ts) ==
    {t \in ts : t.op = "clear" \/ (t.op = "stop" /\ \E c \in ts : c.op = "clear" /\ c.id = t.parent)}

C16_ClearStep ==
    /\ C16_ClearTasks(tasks') # C16_ClearTasks(tasks) => builtInProviders' = builtInProviders
    /\ SubSeq(builtInProviders', 1, Len(builtInProviders)) = builtInProviders

C16_ClearStopsAll == []C16_AfterClear /\ [][C16_ClearStep]_vars

\* clearUserProviders() returned after two providers had been registered,
\* one of them connected with tools.
C16_Witness ==
    /\ lastReturn.op = "clear"
    /\ Len(objs) = 2
    /\ objs[1].name # objs[2].name
    /\ objs[1].config.command = GoodCmd /\ ~objs[1].config.disabled

\* The stop() calls made in a step.
C17_NewStops == {t \in tasks' : t.op = "stop" /\ t.id \notin TaskIds}

\* C17: stop() called on a provider that is already stopped (never started,
\* start failed, or stopped before) awaits no close of a client or a
\* transport and leaves the provider as it was; a stop() that has run to its
\* end leaves the provider stopped, so that a second stop() changes nothing;
\* and the calls that stop providers never throw.
C17_StopStep ==
    \A t \in C17_NewStops :
        Stopped(objs[t.obj]) => t.pc = "done" /\ objs'[t.obj] = objs[t.obj]

C17_StopState ==
    /\ \A t \in tasks : (t.op = "stop" /\ t.pc = "done") => Stopped(objs[t.obj])
    /\ lastReturn.op \in {"register", "clear"} => ~lastReturn.threw

C17_StopIdempotent == []C17_StopState /\ [][C17_StopStep]_vars

\* stop() was called, and is through, on a provider whose start had failed
\* and had stopped it once already.
C17_Witness ==
    \E t \in tasks :
        /\ t.op = "stop" /\ t.pc = "done"
        /\ objs[t.obj].config.command = BadCmd
        /\ \E p \in tasks : p.id = t.parent /\ p.op = "register" /\ p.pc = "awaitStop"

\* C18: in every state, also while stop() runs between the awaits of a
\* start(), a provider whose connected flag is off has no tools and reports
\* connected: false, and a provider whose flag is on holds a client.
C18_ConnectedMeansLive ==
    \A r \in 1..Len(objs) :
        /\ ~objs[r].connected =>
              objs[r].tools = <<>> /\ ~ExternalContext(objs[r]).connected
        /\ objs[r].connected => objs[r].client # "null"

\* C19: a provider whose config has disabled = true never gets a transport
\* or a client (the transport is what spawns the subprocess, in connect) and
\* is never connected, whichever call handed the config to the registry.
C19_DisabledNeverSpawned ==
    \A r \in 1..Len(objs) :
        objs[r].config.disabled =>
            /\ objs[r].transport = "null"
            /\ objs[r].client = "null"
            /\ ~objs[r].connected

\* C29: after registerUserMcpServer returned for a provider whose start
\* failed, the provider is in the external set under its name with its
\* command, owns no tool of getAllTools(), and the mapping aggregateContext
\* returns has no entry under its name.
C29_FailedExcludedFromAggregation ==
    (lastReturn.op = "register" /\ Unstartable(lastReturn.config)) =>
        /\ MapHas(userProviders, lastReturn.name)
        /\ objs[MapGet(userProviders, lastReturn.name)].name = lastReturn.name
        /\ objs[MapGet(userProviders, lastReturn.name)].config.command = lastReturn.config.command
        /\ \A i \in 1..Len(GetAllTools) :
             GetAllTools[i].owner # ExternalHandle(MapGet(userProviders, lastReturn.name))
        /\ \A failing \in SUBSET CanFail(builtInProviders, userProviders) :
             lastReturn.name \notin
                DOMAIN AggregateAll(builtInProviders, objs, userProviders, failing)

-----------------------------------------------------------------------------
(* Claims about overlapping registry calls, checked under SpecOverlapping *)

\* The provider is a value of the userProviders Map.
Registered(r) == \E i \in 1..Len(userProviders) : userProviders[i].ref = r

\* A stop() of the provider is under way.
BeingStopped(r) == \E s \in tasks : s.op = "stop" /\ s.obj = r /\ s.pc # "done"

\* C31: whatever calls overlap, a provider that holds a client or a transport
\* (its subprocess was started and not closed) is a value of the Map or is
\* being stopped: none is dropped from the Map unstopped.
C31_NoProviderDroppedUnstopped ==
    \A r \in 1..Len(objs) :
        (objs[r].client # "null" \/ objs[r].transport # "null") =>
            (Registered(r) \/ BeingStopped(r))

\* C32: once stop() has run on a provider (after a failed start or on
\* request), no later step turns its connected flag on or gives it tools.
C32_StoppedIsFinalStep ==
    \A r \in 1..Len(objs) :
        Closing(r) =>
            /\ objs'[r].connected => objs[r].connected
            /\ objs'[r].tools # <<>> => objs'[r].tools = objs[r].tools

C32_StoppedIsFinal == [][C32_StoppedIsFinalStep]_vars

\* C33: no two stop() calls on one provider are awaiting the close of its
\* client, or of its transport, at the same time: each is closed by one call.
C33_ClosedAtMostOnce ==
    \A s, t \in tasks :
        (/\ s.op = "stop" /\ t.op = "stop" /\ s.obj = t.obj
         /\ s.pc = t.pc /\ s.pc \in {"closeClient", "closeTransport"}) => s = t

-----------------------------------------------------------------------------
(* Claims about the tool-calling loop, checked under Spec and SpecFair *)

\* The positions of the assistant messages of the conversation.
AssistantPositions ==
    {p \in 1..Len(run.messages) : run.messages[p].role = "assistant"}

\* The tool calls the backend requested in its k-th reply of this invocation,
\* with the ids it assigned.
RequestedCalls(k) ==
    BackendMessage(run.script[((k - 1) % Len(run.script)) + 1], k).tool_calls

\* C2: an invocation whose every gateway call was answered by a reply that
\* requests tools makes exactly 10 gateway calls and ends reporting that the
\* iteration limit was reached; no invocation makes an 11th gateway call, and
\* every invocation that started returns.
C2_AllRepliesRequestedTools ==
    run.pc = "returned" /\ Cardinality(AssistantPositions) = run.gatewayCalls

C2_CapState ==
    /\ run.gatewayCalls <= 10
    /\ C2_AllRepliesRequestedTools =>
          /\ run.gatewayCalls = 10
          /\ run.outcome = "MaxIterations"
          /\ Includes(run.output, "Maximum tool iterations reached")
          /\ history = <<[phase |-> run.phase, output |-> run.output]>>

C2_CapTerminates ==
    /\ []C2_CapState
    /\ (run.pc # "idle") ~> (run.pc = "returned")

C2_Witness ==
    /\ C2_AllRepliesRequestedTools
    /\ run.mode = "stream"
    /\ run.gatewayCalls = 10

\* C3: a tool call whose execution fails in the registry (tool not found, the
\* provider throws) is answered by a tool message for that call's id whose
\* content is {error: message}; the invocation is not aborted at that call,
\* the calls after it in the same reply are executed and answered before the
\* next gateway call, which receives these messages.
C3_Failure(call) ==
    RegistryExecuteTool(call.name, JsonParse(call.arguments),
                        builtInProviders, objs, userProviders)

C3_Fails(call) == JsonValid(call.arguments) /\ C3_Failure(call).threw

C3_ErrorMessage(call) ==
    [role |-> "tool", tool_call_id |-> call.id,
     content |-> JsonStringify([error |-> C3_Failure(call).message])]

C3_ToolFailureContained ==
    \A p \in AssistantPositions :
        LET calls == run.messages[p].tool_calls
        IN  /\ \A j \in 1..Len(calls) :
                 C3_Fails(calls[j]) =>
                    IF p + j <= Len(run.messages)
                    THEN run.messages[p + j] = C3_ErrorMessage(calls[j])
                    ELSE run.pc = "tool" /\ run.callIdx <= j
            /\ (\E j \in 1..Len(calls) : C3_Fails(calls[j])) =>
                  (run.pc \in {"chat", "stream"} \/ run.outcome = "Done"
                      => p + Len(calls) <= Len(run.messages))

\* A failed call was answered, the call after it was executed, and the
\* invocation ended with a final answer.
C3_Witness ==
    /\ run.outcome = "Done"
    /\ \E p \in AssistantPositions :
          /\ Len(run.messages[p].tool_calls) = 2
          /\ C3_Fails(run.messages[p].tool_calls[1])
          /\ ~C3_Fails(run.messages[p].tool_calls[2])
          /\ run.messages[p + 1] = C3_ErrorMessage(run.messages[p].tool_calls[1])
          /\ run.messages[p + 2].content =
                JsonStringify(BuiltInResult("read_file", JsonParse(ArgsRead)))

\* C4: the conversation is the system message, the user message, then for each
\* tool-requesting reply, in order, one assistant message with the calls of
\* that reply followed by one tool message per call, in the order of the
\* calls, each under the id the backend assigned; at a gateway call every
\* requested call has its tool message; and a step never changes or removes a
\* message that is already in the conversation.
RECURSIVE C4_TurnsFrom(_, _, _)
C4_TurnsFrom(p, k, complete) ==
    IF p > Len(run.messages) THEN TRUE
    ELSE LET a == run.messages[p]
         IN  /\ a.role = "assistant"
             /\ a.tool_calls = RequestedCalls(k)
             /\ \A j \in 1..Len(a.tool_calls) :
                   p + j <= Len(run.messages) =>
                      /\ run.messages[p + j].role = "tool"
                      /\ run.messages[p + j].tool_call_id = CallId(k, j)
             /\ complete => p + Len(a.tool_calls) <= Len(run.messages)
             /\ C4_TurnsFrom(p + Len(a.tool_calls) + 1, k + 1, complete)

C4_Shape ==
    run.pc \in {"chat", "stream", "tool", "returned"} =>
        /\ Len(run.messages) >= 2
        /\ run.messages[1] = SystemMessage(run.phase)
        /\ run.messages[2].role = "user"
        /\ C4_TurnsFrom(3, 1, run.pc \in {"chat", "stream"})

C4_AppendOnly ==
    /\ Len(run'.messages) >= Len(run.messages)
    /\ SubSeq(run'.messages, 1, Len(run.messages)) = run.messages

C4_ConversationShape == []C4_Shape /\ [][C4_AppendOnly]_vars

\* The third gateway call, after a reply with two calls and a reply with one.
C4_Witness ==
    /\ run.pc \in {"chat", "stream"}
    /\ run.gatewayCalls = 3
    /\ Len(run.messages) = 7
    /\ run.messages[3].role = "assistant" /\ Len(run.messages[3].tool_calls) = 2
    /\ run.messages[6].role = "assistant" /\ Len(run.messages[6].tool_calls) = 1

\* The content the model sent during the invocation: the contents of its
\* tool-requesting replies, in order.
RECURSIVE C8_Accumulated(_)
C8_Accumulated(p) ==
    IF p > Len(run.messages) THEN ""
    ELSE (IF run.messages[p].role = "assistant"
          THEN OrElse(run.messages[p].content, "") ELSE "")
         \o C8_Accumulated(p + 1)

\* C8: when the loop ends at the iteration limit, the output (returned and
\* pushed to the history) is the content accumulated from the model followed
\* by a notice that the limit was reached, in both modes.
C8_CapOutputKeepsContent ==
    run.outcome = "MaxIterations" =>
        LET acc == C8_Accumulated(3)
        IN  /\ Len(run.output) > Len(acc)
            /\ SubSeq(run.output, 1, Len(acc)) = acc
            /\ Includes(SubSeq(run.output, Len(acc) + 1, Len(run.output)),
                        "Maximum tool iterations reached")

\* The number of tool calls requested by the first k replies.
RECURSIVE C9_Calls(_)
C9_Calls(k) == IF k = 0 THEN 0 ELSE Len(RequestedCalls(k)) + C9_Calls(k - 1)

\* C9: when executePhase ends after k replies that requested tools and one
\* that did not, k < 10, it ended in iteration k + 1 after k + 1 gateway
\* calls, the conversation holds 2 + k + (n_1 + ... + n_k) messages, and the
\* output, returned and pushed to the history, is the content of reply k + 1
\* (the empty string when that reply has no content).
C9_DoneAfterKTurns ==
    (run.mode = "buffered" /\ run.outcome = "Done") =>
        LET k == Cardinality(AssistantPositions)
        IN  /\ k < 10
            /\ run.iterations = k + 1
            /\ run.gatewayCalls = k + 1
            /\ Len(run.messages) = 2 + k + C9_Calls(k)
            /\ run.response.toolCalls = <<>>
            /\ run.output = OrElse(run.response.content, "")
            /\ history = <<[phase |-> run.phase, output |-> run.output]>>

\* Done after three replies that requested tools, four calls in all.
C9_Witness ==
    /\ run.mode = "buffered" /\ run.outcome = "Done"
    /\ Cardinality(AssistantPositions) = 3
    /\ Len(run.messages) = 9
    /\ run.output = "done"

\* The replies of this invocation that carried tool calls: all of them at the
\* cap, all but the last one after a final answer.
C39_ToolReplies ==
    IF run.outcome = "MaxIterations" THEN run.gatewayCalls ELSE run.gatewayCalls - 1

C39_Rounds ==
    (run.pc = "returned" /\ run.outcome \in {"Done", "MaxIterations"}) =>
        /\ Cardinality(AssistantPositions) = C39_ToolReplies
        /\ C39_ToolReplies <= 10
        /\ Len(run.messages) = 2 + C39_ToolReplies + C9_Calls(C39_ToolReplies)

C39_CapStep ==
    (run.outcome # "MaxIterations" /\ run'.outcome = "MaxIterations") =>
        /\ run.pc = "tool" /\ run.iterations = 10 /\ run'.gatewayCalls = 10
        /\ run.callIdx = Len(RequestedCalls(10))
        /\ Len(run.messages) = 2 + 10 + C9_Calls(9) + run.callIdx - 1
        /\ run'.messages =
              Append(run.messages,
                     ToolMessage(RequestedCalls(10)[run.callIdx], run.toolResult.value))

\* C39: the loop reports the limit in the step in which the result of the last
\* call of the 10th reply is appended, after all calls of that reply were
\* executed and with no gateway call after the 10th; and an invocation that
\* ends with an answer or at the limit has run one complete round of tool
\* executions per reply that carried tool calls, at most 10 of them.
C39_TenthRoundExecuted == []C39_Rounds /\ [][C39_CapStep]_vars

\* The buffered loop at the cap, after ten rounds with more than ten calls.
C39_Witness ==
    /\ run.pc = "returned" /\ run.outcome = "MaxIterations" /\ run.mode = "buffered"
    /\ Len(RequestedCalls(10)) = 2
    /\ run.messages[Len(run.messages)].role = "tool"
    /\ run.messages[Len(run.messages)].tool_call_id = RequestedCalls(10)[2].id

\* C11: the step in which an invocation returns (with a final answer, at the
\* iteration limit or on an error) appends exactly one PhaseResult to the
\* history, carrying the requested phase and the returned output; no other
\* step changes the history.
C11_Returns == run.pc # "returned" /\ run'.pc = "returned"

C11_HistoryStep ==
    IF C11_Returns
    THEN /\ Len(history') = Len(history) + 1
         /\ history' = Append(history, [phase |-> run.phase, output |-> run'.output])
         /\ run'.phase = run.phase
         /\ run'.outcome \in {"Done", "MaxIterations", "Fatal"}
    ELSE history' = history

C11_OneResultPerInvocation == [][C11_HistoryStep]_vars

\* An invocation has returned on an error and its result is in the history.
C11_Witness ==
    /\ run.pc = "returned" /\ run.outcome = "Fatal"
    /\ run.gatewayCalls = 2
    /\ history = <<[phase |-> run.phase, output |-> run.output]>>

\* The messages of the errors a gateway call of this invocation can throw.
C12_ErrorMessages ==
    {o.error.message : o \in {x \in GatewayOutcomes(llmConfig, run.script, 1) : x.threw}}

\* C12: a failed gateway call is the invocation's last step: the invocation
\* returns in that step with an error message as output, having made no
\* further gateway call and executed no further tool; and the gateway is
\* called once per iteration, never again within one.
C12_Failed == run.outcome = "Fatal"

C12_FailureStep ==
    (~C12_Failed /\ C12_Failed') =>
        /\ run.pc \in {"chat", "stream"}
        /\ run'.pc = "returned"
        /\ run'.gatewayCalls = run.gatewayCalls
        /\ run'.iterations = run.iterations
        /\ run'.messages = run.messages

C12_FailureState ==
    /\ run.gatewayCalls = run.iterations
    /\ C12_Failed =>
          /\ run.pc = "returned"
          /\ \E m \in C12_ErrorMessages : run.output \in {m, "Error: " \o m}

C12_GatewayFailureIsFatal == []C12_FailureState /\ [][C12_FailureStep]_vars

\* The third gateway call failed after two rounds of tools.
C12_Witness ==
    /\ C12_Failed
    /\ run.gatewayCalls = 3
    /\ Cardinality(AssistantPositions) = 2

\* The position of the assistant message of the current iteration.
C13_Turn == CHOOSE p \in AssistantPositions : \A q \in AssistantPositions : q <= p

C13_ResultOf(call) ==
    ExecuteToolCall(call, builtInProviders, objs, userProviders)

\* C13: while a tool executes, it is call j of the current reply, the only
\* one in flight: the results of calls 1..j-1, and no others, follow the
\* assistant message, in the order of the calls; and the next execution to
\* start after call j is call j+1, in the step that appends the result of j.
C13_InOrderState ==
    run.pc = "tool" =>
        LET p == C13_Turn
            j == run.callIdx
        IN  /\ run.messages[p].tool_calls = run.toolCalls
            /\ j \in 1..Len(run.toolCalls)
            /\ Len(run.messages) = p + j - 1
            /\ \A i \in 1..(j - 1) :
                  run.messages[p + i] =
                     ToolMessage(run.toolCalls[i], C13_ResultOf(run.toolCalls[i]).value)
            /\ run.toolResult = C13_ResultOf(run.toolCalls[j])

C13_InOrderStep ==
    run'.pc = "tool" =>
        IF run.pc = "tool"
        THEN /\ run'.callIdx = run.callIdx + 1
             /\ run'.messages =
                   Append(run.messages,
                          ToolMessage(run.toolCalls[run.callIdx], run.toolResult.value))
        ELSE run'.callIdx = 1

C13_ToolsOneAtATime == []C13_InOrderState /\ [][C13_InOrderStep]_vars

\* The second call of a reply executes after the first one failed.
C13_Witness ==
    /\ run.pc = "tool" /\ run.callIdx = 2
    /\ run.toolCalls[1].name # run.toolCalls[2].name
    /\ run.messages[Len(run.messages)].role = "tool"
    /\ run.messages[Len(run.messages)].tool_call_id = run.toolCalls[1].id

\* C27: a tool call whose arguments are not JSON makes executeToolCall return
\* {error: "Failed to parse tool arguments: ..."}: it does not throw and the
\* result is not one of the registry or of the tool, even when the tool
\* exists; the result becomes the tool message of that call, under its id,
\* in its place among the tool messages of the reply.
C27_Unparsable(call) == ~JsonValid(call.arguments)

C27_ParseError == [error |-> "Failed to parse tool arguments: " \o JsonParseError]

C27_ErrorMessage(call) ==
    [role |-> "tool", tool_call_id |-> call.id, content |-> JsonStringify(C27_ParseError)]

C27_ParseFailureAnswered ==
    /\ (run.pc = "tool" /\ C27_Unparsable(run.toolCalls[run.callIdx])) =>
          (~run.toolResult.threw /\ run.toolResult.value = C27_ParseError)
    /\ \A p \in AssistantPositions :
          LET calls == run.messages[p].tool_calls
          IN  \A j \in 1..Len(calls) :
                 C27_Unparsable(calls[j]) =>
                    IF p + j <= Len(run.messages)
                    THEN run.messages[p + j] = C27_ErrorMessage(calls[j])
                    ELSE run.pc = "tool" /\ run.callIdx <= j

\* A call of an existing tool with unparsable arguments was answered with the
\* parse error, after the answer to the call before it, and the invocation
\* went on to a final answer.
C27_Witness ==
    /\ run.outcome = "Done"
    /\ \E p \in AssistantPositions :
          /\ Len(run.messages[p].tool_calls) = 2
          /\ C27_Unparsable(run.messages[p].tool_calls[2])
          /\ Find(GetAllTools, run.messages[p].tool_calls[2].name) # <<>>
          /\ run.messages[p + 1].tool_call_id = run.messages[p].tool_calls[1].id
          /\ run.messages[p + 2] = C27_ErrorMessage(run.messages[p].tool_calls[2])

-----------------------------------------------------------------------------
(* Claim about dispatch against the live registry, checked under SpecLive *)

\* The step in which executeToolCall is called for the next tool call.
C34_Dispatches == run'.pc = "tool" /\ (run.pc # "tool" \/ run'.callIdx # run.callIdx)

\* The catalog entry the name of the call resolves to at that moment.
C34_Resolved == Find(GetAllTools, run'.toolCalls[run'.callIdx].name)

\* C34: while the registry is reconfigured during an invocation, the tool
\* definitions stay those taken at its start; a call whose tool is not in
\* the catalog any more, or whose provider's client has been or is being
\* closed, is not forwarded to the server and gets an {error} result; and a
\* tool call never ends the invocation.
C34_DispatchStep ==
    /\ InFlight /\ run.pc # "aggregate" => run'.toolDefinitions = run.toolDefinitions
    /\ C34_Dispatches =>
          /\ ~run'.toolResult.threw
          /\ (\/ C34_Resolved = <<>>
              \/ ~C34_Resolved[1].owner.builtIn /\ Closing(C34_Resolved[1].owner.ref))
                => "error" \in DOMAIN run'.toolResult.value
    /\ run.pc = "tool" => run'.outcome # "Fatal"

-----------------------------------------------------------------------------
(* Claim about the chat session, checked under SpecView *)

\* C20: at most one invocation of the loop is in flight in a session. A
\* sendMessage request that arrives while one is in flight changes nothing:
\* it starts no invocation, makes no gateway call and appends nothing to the
\* history; and it is not queued: an invocation only starts in the step in
\* which a request arrives while none is in flight.
C20_Received == view'.received = view.received + 1
C20_Starts == run'.pc = "aggregate" /\ run # run'

C20_OneInFlight ==
    /\ view.inFlight \in {0, 1}
    /\ view.isProcessing <=> view.inFlight = 1
    /\ view.isProcessing <=> run.pc # "idle"

C20_RequestStep ==
    /\ (C20_Received /\ view.isProcessing) =>
          /\ run' = run
          /\ history' = history
          /\ gen' = gen
          /\ view' = [view EXCEPT !.received = @ + 1]
    /\ C20_Starts => C20_Received /\ ~view.isProcessing /\ run.pc = "idle"
    /\ Len(history') > Len(history) => ~C20_Received

C20_OverlappingRequestRejected == []C20_OneInFlight /\ [][C20_RequestStep]_vars

\* A request arrived during an invocation that has called the gateway twice
\* and is executing a tool: it left no trace but its count.
C20_Witness ==
    /\ view.received = 2
    /\ view.isProcessing
    /\ history = <<>>
    /\ run.pc = "tool" /\ run.gatewayCalls = 2
    /\ view.posted = <<SetLoading(TRUE)>>

\* The content events chatStream has yielded for the chunks read so far in
\* the current iteration, in order.
C21_Yielded ==
    LET read == SubSeq(gen.raw, 1, Len(gen.raw) - Len(gen.stream))
        withContent == SelectSeq(read, LAMBDA chunk : ~Falsy(chunk.content))
    IN  [i \in 1..Len(withContent) |-> withContent[i].content]

C21_Completions(posted) ==
    Len(SelectSeq(posted, LAMBDA m : m.type = "streamComplete"))

\* C21: in a streaming invocation the callback has received, after every
\* read of the stream, exactly the content fragments the gateway yielded so
\* far, once each and in arrival order; calls of the callback only add to
\* what was delivered; streamComplete is posted once, when the invocation
\* has returned, with the delivered chunks joined; and no callback follows it.
C21_DeliveredState ==
    /\ (run.pc = "stream") =>
          LET frags == C21_Yielded
              n == Len(run.emitted)
          IN  /\ n >= Len(frags)
              /\ SubSeq(run.emitted, n - Len(frags) + 1, n) = frags
              /\ run.currentContent = Join(frags, "")
    /\ C21_Completions(view.posted) <= 1
    /\ view.isProcessing => C21_Completions(view.posted) = 0

C21_DeliveryStep ==
    /\ run'.pc \notin {"idle", "aggregate"} =>
          /\ Len(run'.emitted) >= Len(run.emitted)
          /\ SubSeq(run'.emitted, 1, Len(run.emitted)) = run.emitted
    /\ (run'.emitted # run.emitted /\ run'.emitted # <<>>) =>
          /\ view.isProcessing
          /\ view' = view
    /\ C21_Completions(view'.posted) > C21_Completions(view.posted) =>
          /\ run.pc = "returned"
          /\ view'.posted = view.posted \o
                <<StreamComplete(Join(run.emitted, ""), run.phase), SetLoading(FALSE)>>
          /\ run' = IdleRun

C35_CompletionCarriesOutput ==
    \A i \in 1..Len(view.posted) :
        view.posted[i].type = "streamComplete" =>
            /\ history # <<>>
            /\ view.posted[i].value = history[Len(history)].output

-----------------------------------------------------------------------------
(* Claim about the end of a stream, checked under SpecEnding *)

\* The events chatStream yields for a stream, in order.
RECURSIVE C36_Events(_, _)
C36_Events(acc, raw) ==
    IF raw = <<>> THEN <<>>
    ELSE LET step == StreamStep(acc, Head(raw))
         IN  step.events \o C36_Events(step.acc, Tail(raw))

\* C36: when the stream of an iteration is exhausted, chatStream has yielded
\* one finalization event, as its last event, carrying the accumulated tool
\* calls; and if tool-call deltas were received the loop holds these calls.
C36_FinalizationDelivered ==
    (run.pc = "stream" /\ gen.stream = <<>>) =>
        LET events == C36_Events(<<>>, gen.raw)
            dones == {i \in 1..Len(events) : events[i].done}
        IN  /\ dones = {Len(events)}
            /\ events # <<>>
            /\ events[Len(events)].toolCalls = AccValues(gen.acc)
            /\ Deltas(gen.raw) # <<>> => run.toolCalls = AccValues(gen.acc)

-----------------------------------------------------------------------------
(* Claim about the class of a gateway failure, checked under SpecFailure *)

\* The class of a transport failure that carries one indicator.
C37_Class(error) ==
    CASE error.status = 401 /\ error.code = "" -> "AUTH_ERROR"
      [] error.status = 429 /\ error.code = "" -> "RATE_LIMIT"
      [] error.status >= 500 /\ error.code = "" -> "API_ERROR"
      [] error.status = 0 /\ error.code \in {"ECONNREFUSED", "ENOTFOUND"} -> "NETWORK_ERROR"
      [] error.status = 0 /\ error.code = "ETIMEDOUT" -> "TIMEOUT"
      [] OTHER -> "none"

\* C37: the class the buffered loop records for a failed gateway call is the
\* class of the transport failure (401: AuthError, 429: RateLimit, 5xx:
\* ApiError, ECONNREFUSED/ENOTFOUND: NetworkError, ETIMEDOUT: Timeout), and
\* the output is the user-facing message of that class.
C37_ClassSurvivesGateway ==
    (pure.fn = "chat" /\ pure.returned /\ C37_Class(pure.arg) # "none") =>
        /\ pure.errorType = C37_Class(pure.arg)
        /\ pure.output = GetUserFriendlyMessage(C37_Class(pure.arg), pure.thrown.message)

-----------------------------------------------------------------------------
(* Claim about the release of the guard flag, checked under SpecSession *)

C38_FlagState == view.isProcessing <=> run.pc # "idle"

C38_FlagStep ==
    /\ (run.pc # "idle" /\ run'.pc = "idle") => ~view'.isProcessing
    /\ (view'.received # view.received /\ ~view.isProcessing) =>
          (view'.isProcessing /\ run'.pc = "aggregate")

-----------------------------------------------------------------------------
(* Claim about the history, checked under SpecHistory *)

C28_Appended ==
    /\ run.pc # "returned" /\ run'.pc = "returned"
    /\ Len(history') = Len(history) + 1
    /\ SubSeq(history', 1, Len(history)) = history
    /\ history'[Len(history')] = [phase |-> run.phase, output |-> run'.output]

C28_Cleared ==
    /\ history' = <<>>
    /\ Len(view'.posted) = Len(view.posted) + 1
    /\ view'.posted[Len(view'.posted)].type = "historyCleared"

\* C28: a step changes the history only by appending the PhaseResult of the
\* invocation that returns, or by emptying it on clearHistory; the entries
\* already there stay as they are and where they are; and a change to a list
\* that getHistory() returned leaves the history as it is.
C28_HistoryStep ==
    /\ history' # history => (C28_Appended \/ C28_Cleared)
    /\ pure' # pure => history' = history

C28_HistoryAppendOrReset == [][C28_HistoryStep]_vars

\* The history was cleared during a request, the request appended its result
\* to it, and a list returned by getHistory() was changed afterwards.
C28_Witness ==
    /\ \E i \in 1..Len(view.posted) : view.posted[i].type = "historyCleared"
    /\ Len(history) = 1
    /\ pure.fn = "getHistory" /\ pure.changes = 1
    /\ pure.result.items = Append(history, Forged)

-----------------------------------------------------------------------------
(* Claim about clearHistory during an invocation, checked under SpecClearing *)

C40_Clears == {i \in 1..Len(view.posted) : view.posted[i].type = "historyCleared"}
C40_Completions == {i \in 1..Len(view.posted) : view.posted[i].type = "streamComplete"}

\* A clearHistory request was handled between the acceptance of the current
\* request and its completion.
C40_ClearedInFlight ==
    /\ view.posted # <<>> /\ view.posted[1].type = "setLoading"
    /\ \E i \in C40_Clears : \A j \in C40_Completions : i < j

C40_State ==
    /\ Cardinality(C40_Clears) < MaxClears => ENABLED ClearHistory
    /\ C40_ClearedInFlight =>
          IF run.pc \notin {"returned", "idle"}
          THEN history = <<>>
          ELSE IF run.pc = "returned"
          THEN history = <<[phase |-> run.phase, output |-> run.output]>>
          ELSE (\A i \in C40_Clears : \A j \in C40_Completions : i < j) =>
                  /\ Len(history) = 1
                  /\ \A j \in C40_Completions : history[1].phase = view.posted[j].phase

C40_ClearStep ==
    (Cardinality(C40_Clears)' = Cardinality(C40_Clears) + 1) =>
        /\ history' = <<>>
        /\ pure' = pure
        /\ run' = run
        /\ view'.isProcessing = view.isProcessing

\* C40: a clearHistory request is handled in every state, whether or not an
\* invocation is in flight; it empties the history in that step and leaves the
\* invocation and the list the invocation was given as they are; and after a
\* clear during an invocation the history is empty until that invocation
\* returns and holds exactly its PhaseResult from then on.
C40_ClearDuringInvocation == []C40_State /\ [][C40_ClearStep]_vars

\* The second invocation was given a list of one entry, the history was
\* cleared while it was in flight, and it has returned.
C40_Witness ==
    /\ C40_ClearedInFlight /\ view.isProcessing /\ run.pc = "returned"
    /\ pure.fn = "getHistory" /\ Len(pure.result.items) = 1
    /\ Len(history) = 1
    /\ view.received = 2

-----------------------------------------------------------------------------
(* Claims about the two variants of the loop, checked under SpecTwin *)

\* The second invocation, executePhaseStream, is under way or has returned.
Streaming == twin.pc = "returned" /\ run.mode = "stream"

\* The positions of the assistant messages of the first invocation.
TwinTurns == {i \in 1..Len(twin.messages) : twin.messages[i].role = "assistant"}

\* The conversation the first invocation sent with its n-th gateway call.
TwinMessagesAt(n) ==
    IF Cardinality(TwinTurns) < n THEN twin.messages
    ELSE LET p == CHOOSE i \in TwinTurns : Cardinality({q \in TwinTurns : q < i}) = n - 1
         IN  SubSeq(twin.messages, 1, p - 1)

\* C22: for the same replies and tool results, executePhaseStream sends with
\* each gateway call the conversation executePhase sent with it (the same
\* messages, so the same tool calls executed in the same order), and ends
\* with the same conversation.
C22_SameConversation ==
    Streaming =>
        /\ run.pc = "chat" => run.messages = TwinMessagesAt(run.gatewayCalls)
        /\ (run.pc = "returned" /\ run.outcome # "Fatal") => run.messages = twin.messages

\* C23: for the same replies, tool results and failures, executePhaseStream
\* appends to the history a PhaseResult with the phase and the output of the
\* one executePhase appended.
C23_SameResult ==
    (Streaming /\ run.pc = "returned") =>
        /\ Len(history) = 2
        /\ history[2].phase = history[1].phase
        /\ history[2].output = history[1].output

-----------------------------------------------------------------------------
(* Claim about mode selection, checked under SpecPhase *)

\* Two characters that are the same letter, in either case, or the same character.
SameLetter(x, y) ==
    \/ x = y
    \/ \E k \in 1..Len(UpperCase) :
          {x, y} = {SubSeq(UpperCase, k, k), SubSeq(LowerCase, k, k)}

EqualsIgnoringCase(a, b) ==
    /\ Len(a) = Len(b)
    /\ \A i \in 1..Len(a) : SameLetter(SubSeq(a, i, i), SubSeq(b, i, i))

ContainsIgnoringCase(text, word) ==
    \E i \in 1..(Len(text) - Len(word) + 1) :
        EqualsIgnoringCase(SubSeq(text, i, i + Len(word) - 1), word)

ModeNames == {"plan", "review", "phases"}

\* C24: a message equal to a mode name, ignoring case, selects that mode;
\* otherwise one that contains 'review' selects review; otherwise one that
\* contains 'phase' selects phases; otherwise plan is selected. (The
\* keywords are looked for ignoring case, like the mode names.)
C24_ModeSelection ==
    (pure.fn = "_determinePhase" /\ pure.returned) =>
        pure.result =
            IF \E mode \in ModeNames : EqualsIgnoringCase(pure.arg, mode)
            THEN CHOOSE mode \in ModeNames : EqualsIgnoringCase(pure.arg, mode)
            ELSE IF ContainsIgnoringCase(pure.arg, "review") THEN "review"
            ELSE IF ContainsIgnoringCase(pure.arg, "phase") THEN "phases"
            ELSE "plan"

\* A message with both keywords, 'phase' first, selected review.
C24_Witness ==
    /\ pure.fn = "_determinePhase" /\ pure.returned
    /\ pure.arg = "PhaseReview"
    /\ pure.result = "review"

-----------------------------------------------------------------------------
(* Claim about the configuration check, checked under SpecConfig *)

C25_IsBlank(text) == text \in {"", " ", "  "}

C25_KeyRequired == llmConfig.provider # "ollama"

\* The error is the configuration error: thrown before any request, with the
\* line of each setting that is missing.
C25_ConfigurationError ==
    /\ pure.threw /\ pure.requests = 0
    /\ (C25_KeyRequired /\ C25_IsBlank(llmConfig.apiKey))
          <=> Includes(pure.error.message, "API Key is required")
    /\ C25_IsBlank(llmConfig.baseUrl) <=> Includes(pure.error.message, "API Base URL is required.")
    /\ C25_IsBlank(llmConfig.model) <=> Includes(pure.error.message, "Model name is required.")

\* C25: chat and chatStream fail with a configuration error, before any
\* request, whenever the API key is blank for a backend that requires one,
\* the base URL is blank or the model is blank; for ollama a blank API key
\* alone never makes them fail.
C25_BlankSettingsRejected ==
    (pure.fn \in {"chat", "chatStream"} /\ pure.returned) =>
        /\ (\/ C25_KeyRequired /\ C25_IsBlank(llmConfig.apiKey)
            \/ C25_IsBlank(llmConfig.baseUrl)
            \/ C25_IsBlank(llmConfig.model)) => C25_ConfigurationError
        /\ (/\ llmConfig.provider = "ollama"
            /\ ~C25_IsBlank(llmConfig.baseUrl)
            /\ ~C25_IsBlank(llmConfig.model)) => (~pure.threw /\ pure.requests = 1)

\* chatStream threw for a key made of white space only.
C25_Witness ==
    /\ pure.fn = "chatStream" /\ pure.returned
    /\ llmConfig.provider = "openai" /\ llmConfig.apiKey = "  "
    /\ ~C25_IsBlank(llmConfig.baseUrl) /\ ~C25_IsBlank(llmConfig.model)
    /\ pure.threw /\ pure.requests = 0

-----------------------------------------------------------------------------
(* Claim about error classification, checked under SpecClassify *)

\* The error with its code and the wording of its message taken away, and
\* the error with the wording of its message taken away.
C26_StatusOnly(error) == [error EXCEPT !.code = "", !.message = "request failed"]
C26_WithoutWording(error) == [error EXCEPT !.message = "request failed"]

C26_KnownCodes == {"ECONNREFUSED", "ENOTFOUND", "ENETUNREACH", "ETIMEDOUT"}

\* C26: an error that carries a transport status gets the class its status
\* alone gives it, whatever its code and its message; an error without a
\* status whose code gives a class gets that class, whatever its message.
C26_StrictPriority ==
    (pure.fn = "classifyError" /\ pure.returned) =>
        /\ pure.arg.status # 0 => pure.result = ClassifyError(C26_StatusOnly(pure.arg))
        /\ (pure.arg.status = 0 /\ pure.arg.code \in C26_KnownCodes) =>
              pure.result = ClassifyError(C26_WithoutWording(pure.arg))

-----------------------------------------------------------------------------
(* Claim about the order of the streamed tool calls, checked under SpecIndexed *)

\* The indices the deltas of the stream carry.
C30_Indices == {Deltas(gen.raw)[k].index : k \in 1..Len(Deltas(gen.raw))}

\* The k-th smallest of a set of numbers.
RECURSIVE C30_Nth(_, _)
C30_Nth(S, k) ==
    LET least == CHOOSE x \in S : \A y \in S : x <= y
    IN  IF k = 1 THEN least ELSE C30_Nth(S \ {least}, k - 1)

\* C30: once the stream is consumed, the toolCalls list of the finalization
\* event has one entry per index the deltas carried, and its k-th entry is
\* the call accumulated for the k-th smallest index.
C30_ToolCallsByIndex ==
    (gen.raw # <<>> /\ gen.stream = <<>>) =>
        LET final == gen.events[Len(gen.events)]
        IN  /\ final.done
            /\ Len(final.toolCalls) = Cardinality(C30_Indices)
            /\ \A k \in 1..Len(final.toolCalls) :
                  final.toolCalls[k] = AccGet(gen.acc, C30_Nth(C30_Indices, k))

-----------------------------------------------------------------------------
(* Claim about stream reassembly, checked under SpecStream *)

\* The fragments of the streamed tool call, in arrival order.
C5_Fragments == [i \in 1..Len(Deltas(gen.raw)) |-> Deltas(gen.raw)[i].arguments]

C5_Concatenation == Join(C5_Fragments, "")

\* The stream was read to its end.
C5_StreamRead == gen.raw # <<>> /\ gen.stream = <<>>

\* C5: when a stream that encodes one tool call in N argument fragments, with
\* or without content deltas in between, has been read to its end, the last
\* event is the finalization event, it delivers one tool call, and the
\* arguments of that call are the fragments concatenated in arrival order,
\* the string chat() returns for the same response.
C5_ReassemblyIsConcatenation ==
    C5_StreamRead =>
        LET final == gen.events[Len(gen.events)]
        IN  /\ final.done
            /\ Len(final.toolCalls) = 1
            /\ final.toolCalls[1].arguments = C5_Concatenation
            /\ final.toolCalls[1].arguments =
                  ChatResponse(Unstreamed(gen.raw)).toolCalls[1].arguments
            /\ run.response.toolCalls # <<>> =>
                  final.toolCalls[1] = run.response.toolCalls[1]

\* Three non-empty fragments with content in between, read to the end, and
\* chat() has answered.
C5_Witness ==
    /\ C5_StreamRead
    /\ Len(C5_Fragments) = 3
    /\ \A i \in 1..3 : C5_Fragments[i] # ""
    /\ Len(gen.raw) = 6
    /\ run.response.toolCalls # <<>>

====
